---- MODULE Spec2Model ----
(***************************************************************************)
(* Model of Ogre::PixelFormatGpuUtils (OgrePixelFormatGpuUtils.cpp): the   *)
(* pixel format descriptor table, the size calculators, the per-pixel      *)
(* colour codec (packColour / unpackColour) and bulkPixelConversion.       *)
(*                                                                         *)
(* Format ids are the integers of the PixelFormatGpu enumeration, in the   *)
(* order of msPixelFormatDesc.  Memory is a sequence of bytes; multi-byte  *)
(* words are little endian.  A float is an exact rational <<n, d>>, d > 0. *)
(***************************************************************************)
EXTENDS Integers, Sequences, FiniteSets, TLC

VARIABLES
    pc,             \* position of the running operation
    format,         \* getSizeBytes / calculateSizeBytes: PixelFormatGpu format
    width,          \* calculateSizeBytes: uint32 width (halved by the loop)
    height,         \* calculateSizeBytes: uint32 height
    depth,          \* calculateSizeBytes: uint32 depth
    slices,         \* calculateSizeBytes: uint32 slices
    numMipmaps,     \* calculateSizeBytes: uint8 numMipmaps (counted down)
    rowAlignment,   \* calculateSizeBytes: uint32 rowAlignment
    totalBytes,     \* calculateSizeBytes: size_t totalBytes
    pf,             \* packColour / unpackColour: PixelFormatGpu pf
    rgbaPtr,        \* packColour / unpackColour: the four floats at rgbaPtr
    mem,            \* packColour / unpackColour: the bytes at dstPtr / srcPtr
    src,            \* bulkPixelConversion: const TextureBox &src and its memory
    srcFormat,      \* bulkPixelConversion: PixelFormatGpu srcFormat
    dst,            \* bulkPixelConversion: const TextureBox &dst and its memory
    dstFormat,      \* bulkPixelConversion: PixelFormatGpu dstFormat
    call,           \* the arguments the running operation was called with
    result          \* what the finished operation returned or signalled

sizeVars == <<format, width, height, depth, slices, numMipmaps, rowAlignment,
              totalBytes>>
codecVars == <<pf, rgbaPtr, mem>>
bulkVars == <<src, srcFormat, dst, dstFormat>>
vars == <<pc, sizeVars, codecVars, bulkVars, call, result>>

\* the variables of an operation that is not running
SizeIdle ==
    /\ format = 0 /\ width = 0 /\ height = 0 /\ depth = 0 /\ slices = 0
    /\ numMipmaps = 0 /\ rowAlignment = 0 /\ totalBytes = 0
CodecIdle == pf = 0 /\ rgbaPtr = <<>> /\ mem = <<>>
BulkIdle == src = <<>> /\ srcFormat = 0 /\ dst = <<>> /\ dstFormat = 0

(***************************************************************************)
(* Bounds of the model.                                                    *)
(***************************************************************************)
MaxDim == 5          \* largest width / height drawn
MaxDepth == 2        \* largest depth and slice count drawn
MaxMips == 4         \* largest numMipmaps drawn
ColourDen == 2       \* colour channels are drawn in steps of 1 / ColourDen
MaxExtent == 2       \* largest width, height, depth and slice count of a box

(***************************************************************************)
(* Sizes are uint32 and size_t values.  The dimensions drawn keep every    *)
(* product below 2^31, where the fixed-width operations of the code are    *)
(* the operations on integers.                                             *)
(***************************************************************************)
Max(a, b) == IF a >= b THEN a ELSE b
Min(a, b) == IF a <= b THEN a ELSE b

(***************************************************************************)
(* The PixelFormatGpu enumeration, in the order of msPixelFormatDesc, and  *)
(* the descriptor table.  PFG(n) is the enumerator named n.                *)
(***************************************************************************)
PixelFormatGpu ==
  << "PFG_UNKNOWN", "PFG_RGBA32_FLOAT", "PFG_RGBA32_UINT",
     "PFG_RGBA32_SINT", "PFG_RGB32_FLOAT", "PFG_RGB32_UINT",
     "PFG_RGB32_SINT", "PFG_RGBA16_FLOAT", "PFG_RGBA16_UNORM",
     "PFG_RGBA16_UINT", "PFG_RGBA16_SNORM", "PFG_RGBA16_SINT",
     "PFG_RG32_FLOAT", "PFG_RG32_UINT", "PFG_RG32_SINT",
     "PFG_D32_FLOAT_S8X24_UINT", "PFG_R10G10B10A2_UNORM", "PFG_R10G10B10A2_UINT",
     "PFG_R11G11B10_FLOAT", "PFG_RGBA8_UNORM", "PFG_RGBA8_UNORM_SRGB",
     "PFG_RGBA8_UINT", "PFG_RGBA8_SNORM", "PFG_RGBA8_SINT",
     "PFG_RG16_FLOAT", "PFG_RG16_UNORM", "PFG_RG16_UINT",
     "PFG_RG16_SNORM", "PFG_RG16_SINT", "PFG_D32_FLOAT",
     "PFG_R32_FLOAT", "PFG_R32_UINT", "PFG_R32_SINT",
     "PFG_D24_UNORM", "PFG_D24_UNORM_S8_UINT", "PFG_RG8_UNORM",
     "PFG_RG8_UINT", "PFG_RG8_SNORM", "PFG_RG8_SINT",
     "PFG_R16_FLOAT", "PFG_D16_UNORM", "PFG_R16_UNORM",
     "PFG_R16_UINT", "PFG_R16_SNORM", "PFG_R16_SINT",
     "PFG_R8_UNORM", "PFG_R8_UINT", "PFG_R8_SNORM",
     "PFG_R8_SINT", "PFG_A8_UNORM", "PFG_R1_UNORM",
     "PFG_R9G9B9E5_SHAREDEXP", "PFG_R8G8_B8G8_UNORM", "PFG_G8R8_G8B8_UNORM",
     "PFG_BC1_UNORM", "PFG_BC1_UNORM_SRGB", "PFG_BC2_UNORM",
     "PFG_BC2_UNORM_SRGB", "PFG_BC3_UNORM", "PFG_BC3_UNORM_SRGB",
     "PFG_BC4_UNORM", "PFG_BC4_SNORM", "PFG_BC5_UNORM",
     "PFG_BC5_SNORM", "PFG_B5G6R5_UNORM", "PFG_B5G5R5A1_UNORM",
     "PFG_BGRA8_UNORM", "PFG_BGRX8_UNORM", "PFG_R10G10B10_XR_BIAS_A2_UNORM",
     "PFG_BGRA8_UNORM_SRGB", "PFG_BGRX8_UNORM_SRGB", "PFG_BC6H_UF16",
     "PFG_BC6H_SF16", "PFG_BC7_UNORM", "PFG_BC7_UNORM_SRGB",
     "PFG_AYUV", "PFG_Y410", "PFG_Y416",
     "PFG_NV12", "PFG_P010", "PFG_P016",
     "PFG_420_OPAQUE", "PFG_YUY2", "PFG_Y210",
     "PFG_Y216", "PFG_NV11", "PFG_AI44",
     "PFG_IA44", "PFG_P8", "PFG_A8P8",
     "PFG_B4G4R4A4_UNORM", "PFG_P208", "PFG_V208",
     "PFG_V408", "PFG_PVRTC_RGB2", "PFG_PVRTC_RGBA2",
     "PFG_PVRTC_RGB4", "PFG_PVRTC_RGBA4", "PFG_PVRTC2_2BPP",
     "PFG_PVRTC2_4BPP", "PFG_ETC1_RGB8_UNORM", "PFG_ETC2_RGB8_UNORM",
     "PFG_ETC2_RGB8_UNORM_SRGB", "PFG_ETC2_RGBA8_UNORM", "PFG_ETC2_RGBA8_UNORM_SRGB",
     "PFG_ETC2_RGB8A1_UNORM", "PFG_ETC2_RGB8A1_UNORM_SRGB", "PFG_EAC_R11_UNORM",
     "PFG_EAC_R11_SNORM", "PFG_EAC_R11G11_UNORM", "PFG_EAC_R11G11_SNORM",
     "PFG_ATC_RGB", "PFG_ATC_RGBA_EXPLICIT_ALPHA", "PFG_ATC_RGBA_INTERPOLATED_ALPHA",
     "PFG_COUNT" >>

msPixelFormatDesc ==
  << [name |-> "PFG_UNKNOWN", components |-> 1, bytesPerPixel |-> 0,
      flags |-> {}],
     [name |-> "PFG_RGBA32_FLOAT", components |-> 4, bytesPerPixel |-> 16,
      flags |-> {"PFF_FLOAT"}],
     [name |-> "PFG_RGBA32_UINT", components |-> 4, bytesPerPixel |-> 16,
      flags |-> {"PFF_INTEGER"}],
     [name |-> "PFG_RGBA32_INT", components |-> 4, bytesPerPixel |-> 16,
      flags |-> {"PFF_INTEGER", "PFF_SIGNED"}],
     [name |-> "PFG_RGB32_FLOAT", components |-> 3, bytesPerPixel |-> 12,
      flags |-> {"PFF_FLOAT"}],
     [name |-> "PFG_RGB32_UINT", components |-> 3, bytesPerPixel |-> 12,
      flags |-> {"PFF_INTEGER"}],
     [name |-> "PFG_RGB32_INT", components |-> 3, bytesPerPixel |-> 12,
      flags |-> {"PFF_INTEGER", "PFF_SIGNED"}],
     [name |-> "PFG_RGBA16_FLOAT", components |-> 4, bytesPerPixel |-> 8,
      flags |-> {"PFF_HALF"}],
     [name |-> "PFG_RGBA16_UNORM", components |-> 4, bytesPerPixel |-> 8,
      flags |-> {"PFF_INTEGER", "PFF_NORMALIZED"}],
     [name |-> "PFG_RGBA16_UINT", components |-> 4, bytesPerPixel |-> 8,
      flags |-> {"PFF_INTEGER"}],
     [name |-> "PFG_RGBA16_SNORM", components |-> 4, bytesPerPixel |-> 8,
      flags |-> {"PFF_INTEGER", "PFF_SIGNED", "PFF_NORMALIZED"}],
     [name |-> "PFG_RGBA16_SINT", components |-> 4, bytesPerPixel |-> 8,
      flags |-> {"PFF_INTEGER", "PFF_SIGNED"}],
     [name |-> "PFG_RG32_FLOAT", components |-> 2, bytesPerPixel |-> 8,
      flags |-> {"PFF_FLOAT"}],
     [name |-> "PFG_RG32_UINT", components |-> 2, bytesPerPixel |-> 8,
      flags |-> {"PFF_INTEGER"}],
     [name |-> "PFG_RG32_SINT", components |-> 2, bytesPerPixel |-> 8,
      flags |-> {"PFF_INTEGER", "PFF_SIGNED"}],
     [name |-> "PFG_D32_FLOAT_S8X24_UINT", components |-> 2, bytesPerPixel |-> 8,
      flags |-> {"PFF_FLOAT", "PFF_DEPTH", "PFF_STENCIL"}],
     [name |-> "PFG_R10G10B10A2_UNORM", components |-> 4, bytesPerPixel |-> 4,
      flags |-> {"PFF_INTEGER", "PFF_NORMALIZED"}],
     [name |-> "PFG_R10G10B10A2_UINT", components |-> 4, bytesPerPixel |-> 4,
      flags |-> {"PFF_INTEGER"}],
     [name |-> "PFG_R11G11B10_FLOAT", components |-> 3, bytesPerPixel |-> 4,
      flags |-> {"PFF_FLOAT_RARE"}],
     [name |-> "PFG_RGBA8_UNORM", components |-> 4, bytesPerPixel |-> 4,
      flags |-> {"PFF_INTEGER", "PFF_NORMALIZED"}],
     [name |-> "PFG_RGBA8_UNORM_SRGB", components |-> 4, bytesPerPixel |-> 4,
      flags |-> {"PFF_INTEGER", "PFF_NORMALIZED", "PFF_SRGB"}],
     [name |-> "PFG_RGBA8_UINT", components |-> 4, bytesPerPixel |-> 4,
      flags |-> {"PFF_INTEGER"}],
     [name |-> "PFG_RGBA8_SNORM", components |-> 4, bytesPerPixel |-> 4,
      flags |-> {"PFF_INTEGER", "PFF_SIGNED", "PFF_NORMALIZED"}],
     [name |-> "PFG_RGBA8_SINT", components |-> 4, bytesPerPixel |-> 4,
      flags |-> {"PFF_INTEGER", "PFF_SIGNED"}],
     [name |-> "PFG_RG16_FLOAT", components |-> 2, bytesPerPixel |-> 4,
      flags |-> {"PFF_HALF"}],
     [name |-> "PFG_RG16_UNORM", components |-> 2, bytesPerPixel |-> 4,
      flags |-> {"PFF_INTEGER", "PFF_NORMALIZED"}],
     [name |-> "PFG_RG16_UINT", components |-> 2, bytesPerPixel |-> 4,
      flags |-> {"PFF_INTEGER"}],
     [name |-> "PFG_RG16_SNORM", components |-> 2, bytesPerPixel |-> 4,
      flags |-> {"PFF_INTEGER", "PFF_SIGNED", "PFF_NORMALIZED"}],
     [name |-> "PFG_RG16_SINT", components |-> 2, bytesPerPixel |-> 4,
      flags |-> {"PFF_INTEGER", "PFF_SIGNED"}],
     [name |-> "PFG_D32_FLOAT", components |-> 1, bytesPerPixel |-> 4,
      flags |-> {"PFF_FLOAT", "PFF_DEPTH"}],
     [name |-> "PFG_R32_FLOAT", components |-> 1, bytesPerPixel |-> 4,
      flags |-> {"PFF_FLOAT"}],
     [name |-> "PFG_R32_UINT", components |-> 1, bytesPerPixel |-> 4,
      flags |-> {"PFF_INTEGER"}],
     [name |-> "PFG_R32_SINT", components |-> 1, bytesPerPixel |-> 4,
      flags |-> {"PFF_INTEGER", "PFF_SIGNED"}],
     [name |-> "PFG_D24_UNORM", components |-> 1, bytesPerPixel |-> 4,
      flags |-> {"PFF_INTEGER", "PFF_NORMALIZED", "PFF_DEPTH"}],
     [name |-> "PFG_D24_UNORM_S8_UINT", components |-> 1, bytesPerPixel |-> 4,
      flags |-> {"PFF_INTEGER", "PFF_NORMALIZED", "PFF_DEPTH", "PFF_STENCIL"}],
     [name |-> "PFG_RG8_UNORM", components |-> 2, bytesPerPixel |-> 2,
      flags |-> {"PFF_INTEGER", "PFF_NORMALIZED"}],
     [name |-> "PFG_RG8_UINT", components |-> 2, bytesPerPixel |-> 2,
      flags |-> {"PFF_INTEGER"}],
     [name |-> "PFG_RG8_SNORM", components |-> 2, bytesPerPixel |-> 2,
      flags |-> {"PFF_INTEGER", "PFF_SIGNED", "PFF_NORMALIZED"}],
     [name |-> "PFG_RG8_SINT", components |-> 2, bytesPerPixel |-> 2,
      flags |-> {"PFF_INTEGER", "PFF_SIGNED"}],
     [name |-> "PFG_R16_FLOAT", components |-> 1, bytesPerPixel |-> 2,
      flags |-> {"PFF_HALF"}],
     [name |-> "PFG_D16_UNORM", components |-> 1, bytesPerPixel |-> 2,
      flags |-> {"PFF_INTEGER", "PFF_NORMALIZED", "PFF_DEPTH"}],
     [name |-> "PFG_R16_UNORM", components |-> 1, bytesPerPixel |-> 2,
      flags |-> {"PFF_INTEGER", "PFF_NORMALIZED"}],
     [name |-> "PFG_R16_UINT", components |-> 1, bytesPerPixel |-> 2,
      flags |-> {"PFF_INTEGER"}],
     [name |-> "PFG_R16_SNORM", components |-> 1, bytesPerPixel |-> 2,
      flags |-> {"PFF_INTEGER", "PFF_SIGNED", "PFF_NORMALIZED"}],
     [name |-> "PFG_R16_SINT", components |-> 1, bytesPerPixel |-> 2,
      flags |-> {"PFF_INTEGER", "PFF_SIGNED"}],
     [name |-> "PFG_R8_UNORM", components |-> 1, bytesPerPixel |-> 1,
      flags |-> {"PFF_INTEGER", "PFF_NORMALIZED"}],
     [name |-> "PFG_R8_UINT", components |-> 1, bytesPerPixel |-> 1,
      flags |-> {"PFF_INTEGER"}],
     [name |-> "PFG_R8_SNORM", components |-> 1, bytesPerPixel |-> 1,
      flags |-> {"PFF_INTEGER", "PFF_SIGNED", "PFF_NORMALIZED"}],
     [name |-> "PFG_R8_SINT", components |-> 1, bytesPerPixel |-> 1,
      flags |-> {"PFF_INTEGER", "PFF_SIGNED"}],
     [name |-> "PFG_A8_UNORM", components |-> 1, bytesPerPixel |-> 1,
      flags |-> {"PFF_INTEGER", "PFF_NORMALIZED"}],
     [name |-> "PFG_R1_UNORM", components |-> 1, bytesPerPixel |-> 0,
      flags |-> {}],
     [name |-> "PFG_R9G9B9E5_SHAREDEXP", components |-> 1, bytesPerPixel |-> 4,
      flags |-> {"PFF_FLOAT_RARE"}],
     [name |-> "PFG_R8G8_B8G8_UNORM", components |-> 4, bytesPerPixel |-> 4,
      flags |-> {"PFF_INTEGER", "PFF_NORMALIZED"}],
     [name |-> "PFG_G8R8_G8B8_UNORM", components |-> 4, bytesPerPixel |-> 4,
      flags |-> {"PFF_INTEGER", "PFF_SIGNED", "PFF_NORMALIZED"}],
     [name |-> "PFG_BC1_UNORM", components |-> 4, bytesPerPixel |-> 0,
      flags |-> {"PFF_COMPRESSED", "PFF_INTEGER", "PFF_NORMALIZED"}],
     [name |-> "PFG_BC1_UNORM_SRGB", components |-> 4, bytesPerPixel |-> 0,
      flags |-> {"PFF_COMPRESSED", "PFF_INTEGER", "PFF_NORMALIZED", "PFF_SRGB"}],
     [name |-> "PFG_BC2_UNORM", components |-> 4, bytesPerPixel |-> 0,
      flags |-> {"PFF_COMPRESSED", "PFF_INTEGER", "PFF_NORMALIZED"}],
     [name |-> "PFG_BC2_UNORM_SRGB", components |-> 4, bytesPerPixel |-> 0,
      flags |-> {"PFF_COMPRESSED", "PFF_INTEGER", "PFF_NORMALIZED", "PFF_SRGB"}],
     [name |-> "PFG_BC3_UNORM", components |-> 4, bytesPerPixel |-> 0,
      flags |-> {"PFF_COMPRESSED", "PFF_INTEGER", "PFF_NORMALIZED"}],
     [name |-> "PFG_BC3_UNORM_SRGB", components |-> 4, bytesPerPixel |-> 0,
      flags |-> {"PFF_COMPRESSED", "PFF_INTEGER", "PFF_NORMALIZED", "PFF_SRGB"}],
     [name |-> "PFG_BC4_UNORM", components |-> 1, bytesPerPixel |-> 0,
      flags |-> {"PFF_COMPRESSED", "PFF_INTEGER", "PFF_NORMALIZED"}],
     [name |-> "PFG_BC4_SNORM", components |-> 1, bytesPerPixel |-> 0,
      flags |-> {"PFF_COMPRESSED", "PFF_INTEGER", "PFF_NORMALIZED", "PFF_SIGNED"}],
     [name |-> "PFG_BC5_UNORM", components |-> 2, bytesPerPixel |-> 0,
      flags |-> {"PFF_COMPRESSED", "PFF_INTEGER", "PFF_NORMALIZED"}],
     [name |-> "PFG_BC5_SNORM", components |-> 2, bytesPerPixel |-> 0,
      flags |-> {"PFF_COMPRESSED", "PFF_INTEGER", "PFF_NORMALIZED", "PFF_SIGNED"}],
     [name |-> "PFG_B5G6R5_UNORM", components |-> 3, bytesPerPixel |-> 2,
      flags |-> {"PFF_INTEGER", "PFF_NORMALIZED"}],
     [name |-> "PFG_B5G5R5A1_UNORM", components |-> 3, bytesPerPixel |-> 2,
      flags |-> {"PFF_INTEGER", "PFF_NORMALIZED"}],
     [name |-> "PFG_BGRA8_UNORM", components |-> 4, bytesPerPixel |-> 4,
      flags |-> {"PFF_INTEGER", "PFF_NORMALIZED"}],
     [name |-> "PFG_BGRX8_UNORM", components |-> 4, bytesPerPixel |-> 4,
      flags |-> {"PFF_INTEGER", "PFF_NORMALIZED"}],
     [name |-> "PFG_R10G10B10_XR_BIAS_A2_UNORM", components |-> 4, bytesPerPixel |-> 4,
      flags |-> {"PFF_FLOAT_RARE"}],
     [name |-> "PFG_BGRA8_UNORM_SRGB", components |-> 4, bytesPerPixel |-> 4,
      flags |-> {"PFF_INTEGER", "PFF_NORMALIZED", "PFF_SRGB"}],
     [name |-> "PFG_BGRX8_UNORM_SRGB", components |-> 3, bytesPerPixel |-> 4,
      flags |-> {"PFF_INTEGER", "PFF_NORMALIZED", "PFF_SRGB"}],
     [name |-> "PFG_BC6H_UF16", components |-> 3, bytesPerPixel |-> 0,
      flags |-> {"PFF_COMPRESSED", "PFF_FLOAT_RARE"}],
     [name |-> "PFG_BC6H_SF16", components |-> 3, bytesPerPixel |-> 0,
      flags |-> {"PFF_COMPRESSED", "PFF_FLOAT_RARE", "PFF_SIGNED"}],
     [name |-> "PFG_BC7_UNORM", components |-> 4, bytesPerPixel |-> 0,
      flags |-> {"PFF_COMPRESSED", "PFF_INTEGER", "PFF_NORMALIZED"}],
     [name |-> "PFG_BC7_UNORM_SRGB", components |-> 4, bytesPerPixel |-> 0,
      flags |-> {"PFF_COMPRESSED", "PFF_INTEGER", "PFF_NORMALIZED", "PFF_SRGB"}],
     [name |-> "PFG_AYUV", components |-> 3, bytesPerPixel |-> 0,
      flags |-> {}],
     [name |-> "PFG_Y410", components |-> 3, bytesPerPixel |-> 0,
      flags |-> {}],
     [name |-> "PFG_Y416", components |-> 3, bytesPerPixel |-> 0,
      flags |-> {}],
     [name |-> "PFG_NV12", components |-> 3, bytesPerPixel |-> 0,
      flags |-> {}],
     [name |-> "PFG_P010", components |-> 3, bytesPerPixel |-> 0,
      flags |-> {}],
     [name |-> "PFG_P016", components |-> 3, bytesPerPixel |-> 0,
      flags |-> {}],
     [name |-> "PFG_420_OPAQUE", components |-> 3, bytesPerPixel |-> 0,
      flags |-> {}],
     [name |-> "PFG_YUY2", components |-> 3, bytesPerPixel |-> 0,
      flags |-> {}],
     [name |-> "PFG_Y210", components |-> 3, bytesPerPixel |-> 0,
      flags |-> {}],
     [name |-> "PFG_Y216", components |-> 3, bytesPerPixel |-> 0,
      flags |-> {}],
     [name |-> "PFG_NV11", components |-> 3, bytesPerPixel |-> 0,
      flags |-> {}],
     [name |-> "PFG_AI44", components |-> 3, bytesPerPixel |-> 0,
      flags |-> {}],
     [name |-> "PFG_IA44", components |-> 3, bytesPerPixel |-> 0,
      flags |-> {}],
     [name |-> "PFG_P8", components |-> 1, bytesPerPixel |-> 1,
      flags |-> {"PFF_PALLETE"}],
     [name |-> "PFG_A8P8", components |-> 1, bytesPerPixel |-> 2,
      flags |-> {"PFF_PALLETE"}],
     [name |-> "PFG_B4G4R4A4_UNORM", components |-> 4, bytesPerPixel |-> 2,
      flags |-> {"PFF_INTEGER", "PFF_NORMALIZED"}],
     [name |-> "PFG_P208", components |-> 3, bytesPerPixel |-> 0,
      flags |-> {}],
     [name |-> "PFG_V208", components |-> 3, bytesPerPixel |-> 0,
      flags |-> {}],
     [name |-> "PFG_V408", components |-> 3, bytesPerPixel |-> 0,
      flags |-> {}],
     [name |-> "PFG_PVRTC_RGB2", components |-> 3, bytesPerPixel |-> 0,
      flags |-> {"PFF_COMPRESSED", "PFF_INTEGER", "PFF_NORMALIZED"}],
     [name |-> "PFG_PVRTC_RGBA2", components |-> 4, bytesPerPixel |-> 0,
      flags |-> {"PFF_COMPRESSED", "PFF_INTEGER", "PFF_NORMALIZED"}],
     [name |-> "PFG_PVRTC_RGB4", components |-> 3, bytesPerPixel |-> 0,
      flags |-> {"PFF_COMPRESSED", "PFF_INTEGER", "PFF_NORMALIZED"}],
     [name |-> "PFG_PVRTC_RGBA4", components |-> 4, bytesPerPixel |-> 0,
      flags |-> {"PFF_COMPRESSED", "PFF_INTEGER", "PFF_NORMALIZED"}],
     [name |-> "PFG_PVRTC2_2BPP", components |-> 3, bytesPerPixel |-> 0,
      flags |-> {"PFF_COMPRESSED", "PFF_INTEGER", "PFF_NORMALIZED"}],
     [name |-> "PFG_PVRTC2_4BPP", components |-> 3, bytesPerPixel |-> 0,
      flags |-> {"PFF_COMPRESSED", "PFF_INTEGER", "PFF_NORMALIZED"}],
     [name |-> "PFG_ETC1_RGB8_UNORM", components |-> 3, bytesPerPixel |-> 0,
      flags |-> {"PFF_COMPRESSED", "PFF_INTEGER", "PFF_NORMALIZED"}],
     [name |-> "PFG_ETC2_RGB8_UNORM", components |-> 3, bytesPerPixel |-> 0,
      flags |-> {"PFF_COMPRESSED", "PFF_INTEGER", "PFF_NORMALIZED"}],
     [name |-> "PFG_ETC2_RGB8_UNORM_SRGB", components |-> 3, bytesPerPixel |-> 0,
      flags |-> {"PFF_COMPRESSED", "PFF_INTEGER", "PFF_NORMALIZED", "PFF_SRGB"}],
     [name |-> "PFG_ETC2_RGBA8_UNORM", components |-> 4, bytesPerPixel |-> 0,
      flags |-> {"PFF_COMPRESSED", "PFF_INTEGER", "PFF_NORMALIZED"}],
     [name |-> "PFG_ETC2_RGBA8_UNORM_SRGB", components |-> 4, bytesPerPixel |-> 0,
      flags |-> {"PFF_COMPRESSED", "PFF_INTEGER", "PFF_NORMALIZED", "PFF_SRGB"}],
     [name |-> "PFG_ETC2_RGB8A1_UNORM", components |-> 4, bytesPerPixel |-> 0,
      flags |-> {"PFF_COMPRESSED", "PFF_INTEGER", "PFF_NORMALIZED"}],
     [name |-> "PFG_ETC2_RGB8A1_UNORM_SRGB", components |-> 4, bytesPerPixel |-> 0,
      flags |-> {"PFF_COMPRESSED", "PFF_INTEGER", "PFF_NORMALIZED", "PFF_SRGB"}],
     [name |-> "PFG_EAC_R11_UNORM", components |-> 1, bytesPerPixel |-> 0,
      flags |-> {"PFF_COMPRESSED", "PFF_INTEGER", "PFF_NORMALIZED"}],
     [name |-> "PFG_EAC_R11_SNORM", components |-> 1, bytesPerPixel |-> 0,
      flags |-> {"PFF_COMPRESSED", "PFF_INTEGER", "PFF_NORMALIZED", "PFF_SIGNED"}],
     [name |-> "PFG_EAC_R11G11_UNORM", components |-> 2, bytesPerPixel |-> 0,
      flags |-> {"PFF_COMPRESSED", "PFF_INTEGER", "PFF_NORMALIZED"}],
     [name |-> "PFG_EAC_R11G11_SNORM", components |-> 2, bytesPerPixel |-> 0,
      flags |-> {"PFF_COMPRESSED", "PFF_INTEGER", "PFF_NORMALIZED", "PFF_SIGNED"}],
     [name |-> "PFG_ATC_RGB", components |-> 3, bytesPerPixel |-> 0,
      flags |-> {"PFF_COMPRESSED", "PFF_INTEGER", "PFF_NORMALIZED"}],
     [name |-> "PFG_ATC_RGBA_EXPLICIT_ALPHA", components |-> 4, bytesPerPixel |-> 0,
      flags |-> {"PFF_COMPRESSED", "PFF_INTEGER", "PFF_NORMALIZED"}],
     [name |-> "PFG_ATC_RGBA_INTERPOLATED_ALPHA", components |-> 4, bytesPerPixel |-> 0,
      flags |-> {"PFF_COMPRESSED", "PFF_INTEGER", "PFF_NORMALIZED"}],
     [name |-> "PFG_COUNT", components |-> 1, bytesPerPixel |-> 0,
      flags |-> {}] >>

PFG(n) == (CHOOSE i \in 1..Len(PixelFormatGpu) : PixelFormatGpu[i] = n) - 1
PFG_UNKNOWN == PFG("PFG_UNKNOWN")
PFG_COUNT == PFG("PFG_COUNT")
\* the enumerators the switches single out
PFG_D32_FLOAT_S8X24_UINT == PFG("PFG_D32_FLOAT_S8X24_UINT")
PFG_R10G10B10A2_UNORM == PFG("PFG_R10G10B10A2_UNORM")
PFG_R10G10B10A2_UINT == PFG("PFG_R10G10B10A2_UINT")
PFG_D24_UNORM == PFG("PFG_D24_UNORM")
PFG_D24_UNORM_S8_UINT == PFG("PFG_D24_UNORM_S8_UINT")
PFG_A8_UNORM == PFG("PFG_A8_UNORM")
PFG_B5G6R5_UNORM == PFG("PFG_B5G6R5_UNORM")
PFG_B5G5R5A1_UNORM == PFG("PFG_B5G5R5A1_UNORM")
PFG_BGRA8_UNORM == PFG("PFG_BGRA8_UNORM")
PFG_BGRX8_UNORM == PFG("PFG_BGRX8_UNORM")
PFG_B4G4R4A4_UNORM == PFG("PFG_B4G4R4A4_UNORM")
PFG_ETC1_RGB8_UNORM == PFG("PFG_ETC1_RGB8_UNORM")
PFG_RGBA8_UNORM == PFG("PFG_RGBA8_UNORM")
PFG_R8_UNORM == PFG("PFG_R8_UNORM")
PFG_P8 == PFG("PFG_P8")
PFG_BC1_UNORM == PFG("PFG_BC1_UNORM")
PFG_PVRTC_RGB2 == PFG("PFG_PVRTC_RGB2")
AllFormats == 0..(PFG_COUNT - 1)

\* assert( idx >= 0 && idx < PFG_COUNT ); return msPixelFormatDesc[idx];
InRange(fmt) == fmt >= 0 /\ fmt < PFG_COUNT
getDescriptionFor(fmt) == msPixelFormatDesc[fmt + 1]
getBytesPerPixel(fmt) == getDescriptionFor(fmt).bytesPerPixel
getNumberOfComponents(fmt) == getDescriptionFor(fmt).components
\* the flags without PFF_INTEGER
getFlags_WithoutInteger(fmt) == getDescriptionFor(fmt).flags \ {"PFF_INTEGER"}
getFlags(fmt) == getDescriptionFor(fmt).flags
toString(fmt) == getDescriptionFor(fmt).name
isCompressed(fmt) == "PFF_COMPRESSED" \in getDescriptionFor(fmt).flags

(***************************************************************************)
(* getSizeBytes.  A call either returns a value or signals an exception:   *)
(* [kind |-> "ok", value |-> n] or [kind |-> "InvalidParams", value |-> 0].*)
(***************************************************************************)
Ok(v) == [kind |-> "ok", value |-> v]
Raise(k) == [kind |-> k, value |-> 0]

\* OgreCommon.h: ( (offset + alignment - 1u) / alignment ) * alignment
alignToNextMultiple(offset, alignment) ==
    ((offset + alignment - 1) \div alignment) * alignment

\* the case labels of the two 4x4-block branches and the two PVRTC branches
SizeCases8 ==
    {PFG("PFG_BC1_UNORM"), PFG("PFG_BC1_UNORM_SRGB"), PFG("PFG_BC4_UNORM"),
     PFG("PFG_BC4_SNORM"), PFG("PFG_EAC_R11_UNORM"), PFG("PFG_EAC_R11_SNORM"),
     PFG("PFG_ETC1_RGB8_UNORM"), PFG("PFG_ETC2_RGB8_UNORM_SRGB"),
     PFG("PFG_ETC2_RGB8A1_UNORM"), PFG("PFG_ETC2_RGB8A1_UNORM_SRGB"),
     PFG("PFG_ATC_RGB")}
SizeCases16 ==
    {PFG("PFG_BC2_UNORM"), PFG("PFG_BC2_UNORM_SRGB"), PFG("PFG_BC3_UNORM"),
     PFG("PFG_BC3_UNORM_SRGB"), PFG("PFG_BC5_SNORM"), PFG("PFG_BC5_UNORM"),
     PFG("PFG_BC6H_SF16"), PFG("PFG_BC6H_UF16"), PFG("PFG_BC7_UNORM"),
     PFG("PFG_BC7_UNORM_SRGB"), PFG("PFG_ETC2_RGBA8_UNORM"),
     PFG("PFG_ETC2_RGBA8_UNORM_SRGB"), PFG("PFG_EAC_R11G11_UNORM"),
     PFG("PFG_EAC_R11G11_SNORM"), PFG("PFG_ATC_RGBA_EXPLICIT_ALPHA"),
     PFG("PFG_ATC_RGBA_INTERPOLATED_ALPHA")}
SizeCasesPvrtc2 ==
    {PFG("PFG_PVRTC_RGB2"), PFG("PFG_PVRTC_RGBA2"), PFG("PFG_PVRTC2_2BPP")}
SizeCasesPvrtc4 ==
    {PFG("PFG_PVRTC_RGB4"), PFG("PFG_PVRTC_RGBA4"), PFG("PFG_PVRTC2_4BPP")}

\* mutant: the whole image, not the row, is rounded up to rowAlignment
getSizeBytesUncompressed_AlignsTotal(w, h, d, s, fmt, align) ==
    alignToNextMultiple(w * getBytesPerPixel(fmt) * (h * d * s), align)

\* the !isCompressed branch: only the row is aligned
getSizeBytesUncompressed(w, h, d, s, fmt, align) ==
    alignToNextMultiple(w * getBytesPerPixel(fmt), align) * (h * d * s)

\* the switch of the compressed branch without the minimum extents of PVRTC
getSizeBytesCompressed_NoMinimum(w, h, d, s, fmt) ==
    IF fmt \in SizeCases8
      THEN Ok(((w + 3) \div 4) * ((h + 3) \div 4) * 8 * d * s)
    ELSE IF fmt \in SizeCases16
      THEN Ok(((w + 3) \div 4) * ((h + 3) \div 4) * 16 * d * s)
    ELSE IF fmt \in SizeCasesPvrtc2
      THEN Ok(((w * h * 2 + 7) \div 8) * d * s)
    ELSE IF fmt \in SizeCasesPvrtc4
      THEN Ok(((w * h * 4 + 7) \div 8) * d * s)
    ELSE Raise("InvalidParams")
\* the switch of the compressed branch
getSizeBytesCompressed(w, h, d, s, fmt) ==
    IF fmt \in SizeCases8
      THEN Ok(((w + 3) \div 4) * ((h + 3) \div 4) * 8 * d * s)
    ELSE IF fmt \in SizeCases16
      THEN Ok(((w + 3) \div 4) * ((h + 3) \div 4) * 16 * d * s)
    ELSE IF fmt \in SizeCasesPvrtc2
      THEN Ok(((Max(w, 16) * Max(h, 8) * 2 + 7) \div 8) * d * s)
    ELSE IF fmt \in SizeCasesPvrtc4
      THEN Ok(((Max(w, 8) * Max(h, 8) * 4 + 7) \div 8) * d * s)
    ELSE Raise("InvalidParams")

getSizeBytes(w, h, d, s, fmt, align) ==
    IF ~isCompressed(fmt)
      THEN Ok(getSizeBytesUncompressed(w, h, d, s, fmt, align))
      ELSE getSizeBytesCompressed(w, h, d, s, fmt)

(***************************************************************************)
(* getCompressedBlockWidth / getCompressedBlockHeight.                     *)
(***************************************************************************)
BlockCases4 ==
    {PFG("PFG_BC1_UNORM"), PFG("PFG_BC1_UNORM_SRGB"),
     PFG("PFG_BC2_UNORM"), PFG("PFG_BC2_UNORM_SRGB"),
     PFG("PFG_BC3_UNORM"), PFG("PFG_BC3_UNORM_SRGB"),
     PFG("PFG_BC4_UNORM"), PFG("PFG_BC4_SNORM"),
     PFG("PFG_BC5_UNORM"), PFG("PFG_BC5_SNORM"),
     PFG("PFG_BC6H_UF16"), PFG("PFG_BC6H_SF16"),
     PFG("PFG_BC7_UNORM"), PFG("PFG_BC7_UNORM_SRGB"),
     PFG("PFG_ETC2_RGB8_UNORM"), PFG("PFG_ETC2_RGB8_UNORM_SRGB"),
     PFG("PFG_ETC2_RGBA8_UNORM"), PFG("PFG_ETC2_RGBA8_UNORM_SRGB"),
     PFG("PFG_ETC2_RGB8A1_UNORM"), PFG("PFG_ETC2_RGB8A1_UNORM_SRGB"),
     PFG("PFG_EAC_R11_UNORM"), PFG("PFG_EAC_R11_SNORM"),
     PFG("PFG_EAC_R11G11_UNORM"), PFG("PFG_EAC_R11G11_SNORM"),
     PFG("PFG_ATC_RGB"), PFG("PFG_ATC_RGBA_EXPLICIT_ALPHA"),
     PFG("PFG_ATC_RGBA_INTERPOLATED_ALPHA")}
BlockCasesPvrtc ==
    {PFG("PFG_PVRTC_RGB2"), PFG("PFG_PVRTC_RGBA2"), PFG("PFG_PVRTC_RGB4"),
     PFG("PFG_PVRTC_RGBA4"), PFG("PFG_PVRTC2_2BPP"), PFG("PFG_PVRTC2_4BPP")}

\* the switch with ETC1 among the 4x4 formats, whatever apiStrict
getCompressedBlockWidth_Etc1Always4(fmt, apiStrict) ==
    IF fmt \in BlockCases4 \/ fmt = PFG_ETC1_RGB8_UNORM THEN 4
    ELSE IF fmt \in BlockCasesPvrtc THEN 0
    ELSE 1
getCompressedBlockWidth(fmt, apiStrict) ==
    IF fmt \in BlockCases4 THEN 4
    ELSE IF fmt = PFG_ETC1_RGB8_UNORM THEN (IF apiStrict THEN 0 ELSE 4)
    ELSE IF fmt \in BlockCasesPvrtc THEN 0
    ELSE 1
getCompressedBlockHeight(fmt, apiStrict) == getCompressedBlockWidth(fmt, apiStrict)

(***************************************************************************)
(* The size calculator as a state machine: one call of getSizeBytes, or    *)
(* calculateSizeBytes with one action per iteration of its while loop.     *)
(***************************************************************************)
RowAlignments == {1, 4}
\* extents drawn beyond MaxDim: above the minimum extents of PVRTC (8 and 16)
WideDims == {9, 17}

InitSize ==
    /\ CodecIdle /\ BulkIdle
    /\ pc = "start"
    /\ format \in AllFormats
    /\ width \in (1..MaxDim) \cup WideDims
    /\ height \in (1..MaxDim) \cup WideDims
    /\ depth \in 1..MaxDepth
    /\ slices \in 1..MaxDepth
    /\ numMipmaps \in 0..MaxMips
    /\ rowAlignment \in RowAlignments
    /\ totalBytes = 0
    /\ call = [width |-> width, height |-> height, depth |-> depth,
               numMipmaps |-> numMipmaps]
    /\ result = [op |-> "none", kind |-> "none", value |-> 0]

\* size_t getSizeBytes( width, height, depth, slices, format, rowAlignment )
CallGetSizeBytes ==
    /\ pc = "start"
    /\ LET r == getSizeBytes(width, height, depth, slices, format, rowAlignment)
       IN  result' = [op |-> "getSizeBytes", kind |-> r.kind, value |-> r.value]
    /\ pc' = "done"
    /\ UNCHANGED <<sizeVars, codecVars, bulkVars, call>>

\* size_t totalBytes = 0;
CalcEnter ==
    /\ pc = "start"
    /\ pc' = "calculateSizeBytes"
    /\ totalBytes' = 0
    /\ UNCHANGED <<format, width, height, depth, slices, numMipmaps,
                   rowAlignment, codecVars, bulkVars, call, result>>

calcLoopCondition(w, h, d, n) == (w > 1 \/ h > 1 \/ d > 1) /\ n > 0

\* one iteration of the while loop; an exception of getSizeBytes leaves it
CalcLoop ==
    /\ pc = "calculateSizeBytes"
    /\ calcLoopCondition(width, height, depth, numMipmaps)
    /\ LET r == getSizeBytes(width, height, depth, slices, format, rowAlignment)
       IN  IF r.kind = "ok"
             THEN /\ totalBytes' = (totalBytes + r.value)
                  /\ width' = Max(1, width \div 2)
                  /\ height' = Max(1, height \div 2)
                  /\ depth' = Max(1, depth \div 2)
                  /\ numMipmaps' = numMipmaps - 1
                  /\ UNCHANGED <<pc, result>>
             ELSE /\ pc' = "done"
                  /\ result' = [op |-> "calculateSizeBytes", kind |-> r.kind,
                                value |-> 0]
                  /\ UNCHANGED <<totalBytes, width, height, depth, numMipmaps>>
    /\ UNCHANGED <<format, slices, rowAlignment, codecVars, bulkVars, call>>

\* return totalBytes;
CalcReturn ==
    /\ pc = "calculateSizeBytes"
    /\ ~calcLoopCondition(width, height, depth, numMipmaps)
    /\ pc' = "done"
    /\ result' = [op |-> "calculateSizeBytes", kind |-> "ok", value |-> totalBytes]
    /\ UNCHANGED <<sizeVars, codecVars, bulkVars, call>>

NextSize == CallGetSizeBytes \/ CalcEnter \/ CalcLoop \/ CalcReturn
SpecSize == InitSize /\ [][NextSize]_vars

(***************************************************************************)
(* Floats.  A float is the exact rational <<n, d>> with d > 0; the         *)
(* rounding of float32 arithmetic itself is not modelled.                  *)
(***************************************************************************)
Rat(n, d) == <<n, d>>
Zero == <<0, 1>>
One == <<1, 1>>
Abs(i) == IF i < 0 THEN -i ELSE i
Floor(x) == x[1] \div x[2]
Ceil(x) == -((-x[1]) \div x[2])
\* a cast of a float to an integer type truncates toward zero
Trunc(x) == IF x[1] >= 0 THEN x[1] \div x[2] ELSE -((-x[1]) \div x[2])

\* Math::saturate( x ): clamp to [0, 1]
saturate(x) == IF x[1] <= 0 THEN Zero ELSE IF x[1] >= x[2] THEN One ELSE x
\* Math::Clamp( x, lo, hi ) with integer lo <= hi
Clamp(x, lo, hi) ==
    IF Floor(x) < lo THEN <<lo, 1>> ELSE IF Ceil(x) > hi THEN <<hi, 1>> ELSE x

\* roundf( x * m ): nearest integer, ties away from zero (m a positive integer)
RoundScaled(x, m) ==
    LET a == Abs(x[1])
        d == x[2]
        q == m \div d
        r == m % d
        mag == a * q + ((2 * (a * r) + d) \div (2 * d))
    IN  IF x[1] < 0 THEN -mag ELSE mag

\* static_cast<integer>( x * m + 0.5f ) for x >= 0: floor( x * m + 1/2 )
TruncScaledPlusHalf(x, m) ==
    LET d == x[2]
    IN  x[1] * (m \div d) + ((2 * (x[1] * (m % d)) + d) \div (2 * d))

(***************************************************************************)
(* Storage types of the convertFromFloat / convertToFloat templates.       *)
(***************************************************************************)
TSize(T) == CASE T \in {"uint8", "int8"} -> 1
              [] T \in {"uint16", "int16"} -> 2
              [] T \in {"uint32", "int32", "float"} -> 4
TSigned(T) == T \in {"int8", "int16", "int32"}
\* std::numeric_limits<T>::max() and min() of the 8 and 16 bit types
TMax(T) == CASE T = "uint8" -> 255 [] T = "int8" -> 127
             [] T = "uint16" -> 65535 [] T = "int16" -> 32767
TMin(T) == CASE T = "uint8" -> 0 [] T = "int8" -> -128
             [] T = "uint16" -> 0 [] T = "int16" -> -32768
TNarrow(T) == T \in {"uint8", "int8", "uint16", "int16"}

RECURSIVE Pow2(_)
Pow2(i) == IF i = 0 THEN 1 ELSE 2 * Pow2(i - 1)

(***************************************************************************)
(* Memory: sequences of bytes, words little endian.                        *)
(***************************************************************************)
\* the bytes of the unsigned value v in a word of size bytes (v < 2^31)
RECURSIVE BytesOf(_, _)
BytesOf(v, size) ==
    IF size = 0 THEN <<>> ELSE <<v % 256>> \o BytesOf(v \div 256, size - 1)

\* the object representation of code c of type T (two's complement)
EncodeT(c, T) ==
    BytesOf(IF c < 0 THEN c + Pow2(8 * TSize(T)) ELSE c, TSize(T))

\* ((const T*)srcPtr)[i] for the 8 and 16 bit types
DecodeT(srcPtr, i, T) ==
    LET u == IF TSize(T) = 1 THEN srcPtr[i + 1]
             ELSE srcPtr[2 * i + 1] + 256 * srcPtr[2 * i + 2]
    IN  IF TSigned(T) /\ u > TMax(T) THEN u - Pow2(8 * TSize(T)) ELSE u

\* bit i of the word stored in srcPtr
WordBit(srcPtr, i) == (srcPtr[(i \div 8) + 1] \div Pow2(i % 8)) % 2

\* ( val >> lo ) & ( 2^n - 1 ) of the word stored in srcPtr
RECURSIVE Field(_, _, _)
Field(srcPtr, lo, n) ==
    IF n = 0 THEN 0
    ELSE WordBit(srcPtr, lo) + 2 * Field(srcPtr, lo + 1, n - 1)

\* bit i of ( v << sh ), v a non-negative value below 2^31
ShiftedBit(v, sh, i) ==
    IF i < sh \/ i - sh > 30 THEN 0 ELSE (v \div Pow2(i - sh)) % 2

\* the word of size bytes holding the bitwise or of ( v << sh ) over the
\* <<v, sh>> of fields
OrFields(fields, size) ==
    LET bit(i) == IF \E k \in 1..Len(fields) :
                        ShiftedBit(fields[k][1], fields[k][2], i) = 1
                  THEN 1 ELSE 0
        byte(j) == bit(8 * j) + 2 * bit(8 * j + 1) + 4 * bit(8 * j + 2)
                   + 8 * bit(8 * j + 3) + 16 * bit(8 * j + 4)
                   + 32 * bit(8 * j + 5) + 64 * bit(8 * j + 6)
                   + 128 * bit(8 * j + 7)
    IN  [j \in 1..size |-> byte(j - 1)]

\* memcpy( buf + offset, bytes, Len(bytes) ) inside a buffer
WriteAt(buf, offset, bytes) ==
    [i \in 1..Len(buf) |->
        IF i > offset /\ i <= offset + Len(bytes) THEN bytes[i - offset]
        ELSE buf[i]]

(***************************************************************************)
(* convertFromFloat<T> and convertToFloat<T>.  The values of the float,    *)
(* half, sRGB and 32 bit integer encodings are not modelled: for those the *)
(* result has exact = FALSE and only its outcome and size are given.       *)
(***************************************************************************)
ValueModelled(T, flags) ==
    TNarrow(T) /\ flags \cap {"PFF_FLOAT", "PFF_HALF", "PFF_SRGB"} = {}

\* the code convertFromFloat<T> stores for one channel, <<defined, code>>:
\* a cast of a float outside the range of T is undefined
convertChannelFromFloat(v, T, flags) ==
    IF "PFF_NORMALIZED" \in flags
      THEN IF "PFF_SIGNED" \notin flags
             THEN <<TRUE, RoundScaled(saturate(v), TMax(T))>>
             ELSE <<TRUE, RoundScaled(Clamp(v, -1, 1), TMax(T))>>
      ELSE LET c == RoundScaled(v, 1)
           IN  <<c >= TMin(T) /\ c <= TMax(T), c>>

RECURSIVE convertComponents(_, _, _, _, _)
convertComponents(rgba, T, flags, i, numComponents) ==
    IF i >= numComponents THEN <<>>
    ELSE EncodeT(convertChannelFromFloat(rgba[i + 1], T, flags)[2], T)
         \o convertComponents(rgba, T, flags, i + 1, numComponents)

convertFromFloat(rgba, T, numComponents, flags) ==
    IF ~ValueModelled(T, flags)
      THEN [kind |-> "ok", size |-> numComponents * TSize(T), exact |-> FALSE,
            bytes |-> <<>>]
    ELSE IF \E i \in 1..numComponents :
                ~convertChannelFromFloat(rgba[i], T, flags)[1]
      THEN [kind |-> "undefined", size |-> numComponents * TSize(T),
            exact |-> FALSE, bytes |-> <<>>]
    ELSE [kind |-> "ok", size |-> numComponents * TSize(T), exact |-> TRUE,
          bytes |-> convertComponents(rgba, T, flags, 0, numComponents)]

\* the conversion without Ogre::max( rawValue, -1.0f )
convertChannelToFloat_NoFloor(srcPtr, i, T, flags) ==
    LET c == DecodeT(srcPtr, i, T)
    IN  IF "PFF_NORMALIZED" \in flags THEN Rat(c, TMax(T)) ELSE Rat(c, 1)

\* the float convertToFloat<T> yields for one channel
convertChannelToFloat(srcPtr, i, T, flags) ==
    LET c == DecodeT(srcPtr, i, T)
    IN  IF "PFF_NORMALIZED" \in flags
          THEN IF "PFF_SIGNED" \notin flags
                 THEN Rat(c, TMax(T))
                 ELSE (IF c < -TMax(T) THEN Rat(-1, 1) ELSE Rat(c, TMax(T)))
          ELSE Rat(c, 1)

\* the remaining colour components are set to 0, and alpha to 1
convertToFloat(srcPtr, T, numComponents, flags) ==
    IF ~ValueModelled(T, flags)
      THEN [kind |-> "ok", reads |-> numComponents * TSize(T), exact |-> FALSE,
            rgba |-> <<Zero, Zero, Zero, Zero>>]
    ELSE [kind |-> "ok", reads |-> numComponents * TSize(T), exact |-> TRUE,
          rgba |-> [i \in 1..4 |->
                       IF i <= numComponents
                         THEN convertChannelToFloat(srcPtr, i - 1, T, flags)
                       ELSE IF i <= 3 THEN Zero ELSE One]]
PackUniformCases ==
    {<<PFG("PFG_RGBA32_FLOAT"), "float", 4>>,
     <<PFG("PFG_RGBA32_UINT"), "uint32", 4>>,
     <<PFG("PFG_RGBA32_SINT"), "int32", 4>>,
     <<PFG("PFG_RGB32_FLOAT"), "float", 3>>,
     <<PFG("PFG_RGB32_UINT"), "uint32", 3>>,
     <<PFG("PFG_RGB32_SINT"), "int32", 3>>,
     <<PFG("PFG_RGBA16_FLOAT"), "uint16", 4>>,
     <<PFG("PFG_RGBA16_UNORM"), "uint16", 4>>,
     <<PFG("PFG_RGBA16_UINT"), "uint16", 4>>,
     <<PFG("PFG_RGBA16_SNORM"), "int16", 4>>,
     <<PFG("PFG_RGBA16_SINT"), "int16", 4>>,
     <<PFG("PFG_RG32_FLOAT"), "float", 2>>,
     <<PFG("PFG_RG32_UINT"), "uint32", 2>>,
     <<PFG("PFG_RG32_SINT"), "int32", 2>>,
     <<PFG("PFG_RGBA8_UNORM"), "uint8", 4>>,
     <<PFG("PFG_RGBA8_UNORM_SRGB"), "uint8", 4>>,
     <<PFG("PFG_RGBA8_UINT"), "uint8", 4>>,
     <<PFG("PFG_RGBA8_SNORM"), "int8", 4>>,
     <<PFG("PFG_RGBA8_SINT"), "int8", 4>>,
     <<PFG("PFG_RG16_FLOAT"), "uint16", 2>>,
     <<PFG("PFG_RG16_UNORM"), "uint16", 2>>,
     <<PFG("PFG_RG16_UINT"), "uint16", 2>>,
     <<PFG("PFG_RG16_SNORM"), "int16", 2>>,
     <<PFG("PFG_RG16_SINT"), "int16", 2>>,
     <<PFG("PFG_D32_FLOAT"), "float", 1>>,
     <<PFG("PFG_R32_FLOAT"), "float", 1>>,
     <<PFG("PFG_R32_UINT"), "uint32", 1>>,
     <<PFG("PFG_R32_SINT"), "int32", 1>>,
     <<PFG("PFG_RG8_UNORM"), "uint8", 2>>,
     <<PFG("PFG_RG8_UINT"), "uint8", 2>>,
     <<PFG("PFG_RG8_SNORM"), "int8", 2>>,
     <<PFG("PFG_RG8_SINT"), "int8", 2>>,
     <<PFG("PFG_R16_FLOAT"), "uint16", 1>>,
     <<PFG("PFG_D16_UNORM"), "uint16", 1>>,
     <<PFG("PFG_R16_UNORM"), "uint16", 1>>,
     <<PFG("PFG_R16_UINT"), "uint16", 1>>,
     <<PFG("PFG_R16_SNORM"), "int16", 1>>,
     <<PFG("PFG_R16_SINT"), "int16", 1>>,
     <<PFG("PFG_R8_UNORM"), "uint8", 1>>,
     <<PFG("PFG_R8_UINT"), "uint8", 1>>,
     <<PFG("PFG_R8_SNORM"), "int8", 1>>,
     <<PFG("PFG_R8_SINT"), "int8", 1>>,
     <<PFG("PFG_A8_UNORM"), "uint8", 1>>}

UnpackUniformCases ==
    {<<PFG("PFG_RGBA32_FLOAT"), "float", 4>>,
     <<PFG("PFG_RGBA32_UINT"), "uint32", 4>>,
     <<PFG("PFG_RGBA32_SINT"), "int32", 4>>,
     <<PFG("PFG_RGB32_FLOAT"), "float", 3>>,
     <<PFG("PFG_RGB32_UINT"), "uint32", 3>>,
     <<PFG("PFG_RGB32_SINT"), "int32", 3>>,
     <<PFG("PFG_RGBA16_FLOAT"), "uint16", 4>>,
     <<PFG("PFG_RGBA16_UNORM"), "uint16", 4>>,
     <<PFG("PFG_RGBA16_UINT"), "uint16", 4>>,
     <<PFG("PFG_RGBA16_SNORM"), "int16", 4>>,
     <<PFG("PFG_RGBA16_SINT"), "int16", 4>>,
     <<PFG("PFG_RG32_FLOAT"), "float", 2>>,
     <<PFG("PFG_RG32_UINT"), "uint32", 2>>,
     <<PFG("PFG_RG32_SINT"), "int32", 2>>,
     <<PFG("PFG_RGBA8_UNORM"), "uint8", 4>>,
     <<PFG("PFG_RGBA8_UNORM_SRGB"), "uint8", 4>>,
     <<PFG("PFG_RGBA8_UINT"), "uint8", 4>>,
     <<PFG("PFG_RGBA8_SNORM"), "int8", 4>>,
     <<PFG("PFG_RGBA8_SINT"), "int8", 4>>,
     <<PFG("PFG_RG16_FLOAT"), "uint16", 2>>,
     <<PFG("PFG_RG16_UNORM"), "uint16", 2>>,
     <<PFG("PFG_RG16_UINT"), "uint16", 2>>,
     <<PFG("PFG_RG16_SNORM"), "int16", 2>>,
     <<PFG("PFG_RG16_SINT"), "int16", 2>>,
     <<PFG("PFG_D32_FLOAT"), "float", 1>>,
     <<PFG("PFG_R32_FLOAT"), "float", 1>>,
     <<PFG("PFG_R32_UINT"), "uint32", 1>>,
     <<PFG("PFG_R32_SINT"), "int32", 1>>,
     <<PFG("PFG_RG8_UNORM"), "uint8", 2>>,
     <<PFG("PFG_RG8_UINT"), "uint8", 2>>,
     <<PFG("PFG_RG8_SNORM"), "int8", 2>>,
     <<PFG("PFG_RG8_SINT"), "int8", 2>>,
     <<PFG("PFG_R16_FLOAT"), "uint16", 1>>,
     <<PFG("PFG_D16_UNORM"), "uint16", 1>>,
     <<PFG("PFG_R16_UNORM"), "uint16", 1>>,
     <<PFG("PFG_R16_UINT"), "uint16", 1>>,
     <<PFG("PFG_R16_SNORM"), "int16", 1>>,
     <<PFG("PFG_R16_SINT"), "int16", 1>>,
     <<PFG("PFG_R8_UNORM"), "uint8", 1>>,
     <<PFG("PFG_R8_UINT"), "uint8", 1>>,
     <<PFG("PFG_R8_SNORM"), "int8", 1>>,
     <<PFG("PFG_R8_SINT"), "int8", 1>>,
     <<PFG("PFG_BGRA8_UNORM"), "uint8", 4>>,
     <<PFG("PFG_BGRX8_UNORM"), "uint8", 4>>,
     <<PFG("PFG_BGRA8_UNORM_SRGB"), "uint8", 4>>,
     <<PFG("PFG_BGRX8_UNORM_SRGB"), "uint8", 3>>}

(***************************************************************************)
(* packColour.  The result is [kind, size, exact, bytes]: the outcome, the *)
(* number of bytes written at dstPtr and, when exact, the bytes.           *)
(***************************************************************************)
PackNotImplementedCases ==
    {PFG("PFG_R11G11B10_FLOAT"), PFG("PFG_R1_UNORM"),
     PFG("PFG_R9G9B9E5_SHAREDEXP"), PFG("PFG_R8G8_B8G8_UNORM"),
     PFG("PFG_G8R8_G8B8_UNORM"), PFG("PFG_R10G10B10_XR_BIAS_A2_UNORM"),
     PFG("PFG_AYUV"), PFG("PFG_Y410"), PFG("PFG_Y416"), PFG("PFG_NV12"),
     PFG("PFG_P010"), PFG("PFG_P016"), PFG("PFG_420_OPAQUE"), PFG("PFG_YUY2"),
     PFG("PFG_Y210"), PFG("PFG_Y216"), PFG("PFG_NV11"), PFG("PFG_AI44"),
     PFG("PFG_IA44"), PFG("PFG_P8"), PFG("PFG_A8P8"), PFG("PFG_P208"),
     PFG("PFG_V208"), PFG("PFG_V408"), PFG("PFG_UNKNOWN"), PFG("PFG_COUNT")}
PackInvalidParamsCases ==
    {PFG("PFG_BC1_UNORM"), PFG("PFG_BC1_UNORM_SRGB"),
     PFG("PFG_BC2_UNORM"), PFG("PFG_BC2_UNORM_SRGB"),
     PFG("PFG_BC3_UNORM"), PFG("PFG_BC3_UNORM_SRGB"),
     PFG("PFG_BC4_UNORM"), PFG("PFG_BC4_SNORM"),
     PFG("PFG_BC5_UNORM"), PFG("PFG_BC5_SNORM"),
     PFG("PFG_BC6H_UF16"), PFG("PFG_BC6H_SF16"),
     PFG("PFG_BC7_UNORM"), PFG("PFG_BC7_UNORM_SRGB"),
     PFG("PFG_PVRTC_RGB2"), PFG("PFG_PVRTC_RGBA2"),
     PFG("PFG_PVRTC_RGB4"), PFG("PFG_PVRTC_RGBA4"),
     PFG("PFG_PVRTC2_2BPP"), PFG("PFG_PVRTC2_4BPP"),
     PFG("PFG_ETC1_RGB8_UNORM"),
     PFG("PFG_ETC2_RGB8_UNORM"), PFG("PFG_ETC2_RGB8_UNORM_SRGB"),
     PFG("PFG_ETC2_RGBA8_UNORM"), PFG("PFG_ETC2_RGBA8_UNORM_SRGB"),
     PFG("PFG_ETC2_RGB8A1_UNORM"), PFG("PFG_ETC2_RGB8A1_UNORM_SRGB"),
     PFG("PFG_EAC_R11_UNORM"), PFG("PFG_EAC_R11_SNORM"),
     PFG("PFG_EAC_R11G11_UNORM"), PFG("PFG_EAC_R11G11_SNORM"),
     PFG("PFG_ATC_RGB"), PFG("PFG_ATC_RGBA_EXPLICIT_ALPHA"),
     PFG("PFG_ATC_RGBA_INTERPOLATED_ALPHA")}
\* cases whose stored values are not modelled (float bits, sRGB curve)
PackOpaqueCases ==
    {<<PFG("PFG_D32_FLOAT_S8X24_UINT"), 8>>, <<PFG("PFG_BGRA8_UNORM_SRGB"), 4>>,
     <<PFG("PFG_BGRX8_UNORM_SRGB"), 4>>}

Packed(bytes) ==
    [kind |-> "ok", size |-> Len(bytes), exact |-> TRUE, bytes |-> bytes]
PackUndefined(size) ==
    [kind |-> "undefined", size |-> size, exact |-> FALSE, bytes |-> <<>>]
\* every exception raised as ERR_INVALIDPARAMS
PackFailed_AlwaysInvalidParams(k) ==
    [kind |-> "InvalidParams", size |-> 0, exact |-> FALSE, bytes |-> <<>>]
PackFailed(k) == [kind |-> k, size |-> 0, exact |-> FALSE, bytes |-> <<>>]

\* case PFG_R10G10B10A2_UNORM
packR10G10B10A2_UNORM(rgba) ==
    LET ir == TruncScaledPlusHalf(saturate(rgba[1]), 1023)
        ig == TruncScaledPlusHalf(saturate(rgba[2]), 1023)
        ib == TruncScaledPlusHalf(saturate(rgba[3]), 1023)
        ia == TruncScaledPlusHalf(saturate(rgba[4]), 3)
    IN  Packed(OrFields(<< <<ia, 30>>, <<ib, 20>>, <<ig, 10>>, <<ir, 0>> >>, 4))

\* case PFG_R10G10B10A2_UINT
packR10G10B10A2_UINT(rgba) ==
    LET ir == Trunc(Clamp(rgba[1], 0, 1023))
        ig == Trunc(Clamp(rgba[2], 0, 1023))
        ib == Trunc(Clamp(rgba[3], 0, 1023))
        ia == Trunc(Clamp(rgba[4], 0, 3))
    IN  Packed(OrFields(<< <<ia, 30>>, <<ib, 20>>, <<ig, 10>>, <<ir, 0>> >>, 4))

\* case PFG_D24_UNORM: no clamp; the cast of a negative float is undefined
packD24_UNORM(rgba) ==
    LET id == RoundScaled(rgba[1], 16777215)
    IN  IF id < 0 THEN PackUndefined(4) ELSE Packed(OrFields(<< <<id, 0>> >>, 4))

\* case PFG_D24_UNORM_S8_UINT
packD24_UNORM_S8_UINT(rgba) ==
    LET id == RoundScaled(rgba[1], 16777215)
        is == Trunc(rgba[2])
    IN  IF id < 0 \/ is < 0 THEN PackUndefined(4)
        ELSE Packed(OrFields(<< <<is, 24>>, <<id, 0>> >>, 4))

\* case PFG_B5G6R5_UNORM
packB5G6R5_UNORM(rgba) ==
    LET ir == TruncScaledPlusHalf(saturate(rgba[1]), 31)
        ig == TruncScaledPlusHalf(saturate(rgba[2]), 63)
        ib == TruncScaledPlusHalf(saturate(rgba[3]), 31)
    IN  Packed(OrFields(<< <<ir, 11>>, <<ig, 5>>, <<ib, 0>> >>, 2))

\* case PFG_B5G5R5A1_UNORM
packB5G5R5A1_UNORM(rgba) ==
    LET ir == TruncScaledPlusHalf(saturate(rgba[1]), 31)
        ig == TruncScaledPlusHalf(saturate(rgba[2]), 31)
        ib == TruncScaledPlusHalf(saturate(rgba[3]), 31)
        ia == IF rgba[4][1] = 0 THEN 0 ELSE 1
    IN  Packed(OrFields(<< <<ia, 15>>, <<ir, 10>>, <<ig, 5>>, <<ib, 0>> >>, 2))

\* case PFG_BGRA8_UNORM
packBGRA8_UNORM(rgba) ==
    Packed(<<TruncScaledPlusHalf(saturate(rgba[3]), 255),
             TruncScaledPlusHalf(saturate(rgba[2]), 255),
             TruncScaledPlusHalf(saturate(rgba[1]), 255),
             TruncScaledPlusHalf(saturate(rgba[4]), 255)>>)

\* case PFG_BGRX8_UNORM
packBGRX8_UNORM(rgba) ==
    Packed(<<TruncScaledPlusHalf(saturate(rgba[3]), 255),
             TruncScaledPlusHalf(saturate(rgba[2]), 255),
             TruncScaledPlusHalf(saturate(rgba[1]), 255),
             255>>)

\* case PFG_B4G4R4A4_UNORM: ia is computed from rgba[2], as the source does
packB4G4R4A4_UNORM(rgba) ==
    LET ir == TruncScaledPlusHalf(saturate(rgba[1]), 15)
        ig == TruncScaledPlusHalf(saturate(rgba[2]), 15)
        ib == TruncScaledPlusHalf(saturate(rgba[3]), 15)
        ia == TruncScaledPlusHalf(saturate(rgba[3]), 15)
    IN  Packed(OrFields(<< <<ia, 12>>, <<ir, 8>>, <<ig, 4>>, <<ib, 0>> >>, 2))

packColour(rgba, fmt) ==
    LET flags == getFlags(fmt)
    IN  IF \E c \in PackUniformCases : c[1] = fmt
          THEN LET c == CHOOSE c \in PackUniformCases : c[1] = fmt
               IN  convertFromFloat(rgba, c[2], c[3], flags)
        ELSE IF \E c \in PackOpaqueCases : c[1] = fmt
          THEN [kind |-> "ok",
                size |-> (CHOOSE c \in PackOpaqueCases : c[1] = fmt)[2],
                exact |-> FALSE, bytes |-> <<>>]
        ELSE IF fmt = PFG_R10G10B10A2_UNORM
          THEN packR10G10B10A2_UNORM(rgba)
        ELSE IF fmt = PFG_R10G10B10A2_UINT
          THEN packR10G10B10A2_UINT(rgba)
        ELSE IF fmt = PFG_D24_UNORM THEN packD24_UNORM(rgba)
        ELSE IF fmt = PFG_D24_UNORM_S8_UINT
          THEN packD24_UNORM_S8_UINT(rgba)
        ELSE IF fmt = PFG_B5G6R5_UNORM THEN packB5G6R5_UNORM(rgba)
        ELSE IF fmt = PFG_B5G5R5A1_UNORM THEN packB5G5R5A1_UNORM(rgba)
        ELSE IF fmt = PFG_BGRA8_UNORM THEN packBGRA8_UNORM(rgba)
        ELSE IF fmt = PFG_BGRX8_UNORM THEN packBGRX8_UNORM(rgba)
        ELSE IF fmt = PFG_B4G4R4A4_UNORM THEN packB4G4R4A4_UNORM(rgba)
        ELSE IF fmt \in PackNotImplementedCases THEN PackFailed("NotImplemented")
        ELSE IF fmt \in PackInvalidParamsCases THEN PackFailed("InvalidParams")
        ELSE Packed(<<>>)

(***************************************************************************)
(* unpackColour.  srcPtr is the memory at srcPtr (srcPtr[1] is the byte at *)
(* offset 0) and the bytes that follow it.  The result is [kind, reads,    *)
(* exact, rgba]: the outcome, the number of bytes read and, when exact,    *)
(* the four floats written to rgbaPtr.                                     *)
(***************************************************************************)
UnpackNotImplementedCases ==
    {PFG("PFG_R11G11B10_FLOAT"), PFG("PFG_R1_UNORM"),
     PFG("PFG_R9G9B9E5_SHAREDEXP"), PFG("PFG_R8G8_B8G8_UNORM"),
     PFG("PFG_G8R8_G8B8_UNORM"), PFG("PFG_R10G10B10_XR_BIAS_A2_UNORM"),
     PFG("PFG_AYUV"), PFG("PFG_Y410"), PFG("PFG_Y416"), PFG("PFG_NV12"),
     PFG("PFG_P010"), PFG("PFG_P016"), PFG("PFG_420_OPAQUE"), PFG("PFG_YUY2"),
     PFG("PFG_Y210"), PFG("PFG_Y216"), PFG("PFG_NV11"), PFG("PFG_AI44"),
     PFG("PFG_IA44"), PFG("PFG_P8"), PFG("PFG_A8P8"), PFG("PFG_P208"),
     PFG("PFG_V208"), PFG("PFG_V408"), PFG("PFG_UNKNOWN"), PFG("PFG_COUNT")}
UnpackInvalidParamsCases ==
    {PFG("PFG_BC1_UNORM"), PFG("PFG_BC1_UNORM_SRGB"),
     PFG("PFG_BC2_UNORM"), PFG("PFG_BC2_UNORM_SRGB"),
     PFG("PFG_BC3_UNORM"), PFG("PFG_BC3_UNORM_SRGB"),
     PFG("PFG_BC4_UNORM"), PFG("PFG_BC4_SNORM"),
     PFG("PFG_BC5_UNORM"), PFG("PFG_BC5_SNORM"),
     PFG("PFG_BC6H_UF16"), PFG("PFG_BC6H_SF16"),
     PFG("PFG_BC7_UNORM"), PFG("PFG_BC7_UNORM_SRGB"),
     PFG("PFG_PVRTC_RGB2"), PFG("PFG_PVRTC_RGBA2"),
     PFG("PFG_PVRTC_RGB4"), PFG("PFG_PVRTC_RGBA4"),
     PFG("PFG_PVRTC2_2BPP"), PFG("PFG_PVRTC2_4BPP"),
     PFG("PFG_ETC1_RGB8_UNORM"),
     PFG("PFG_ETC2_RGB8_UNORM"), PFG("PFG_ETC2_RGB8_UNORM_SRGB"),
     PFG("PFG_ETC2_RGBA8_UNORM"), PFG("PFG_ETC2_RGBA8_UNORM_SRGB"),
     PFG("PFG_ETC2_RGB8A1_UNORM"), PFG("PFG_ETC2_RGB8A1_UNORM_SRGB"),
     PFG("PFG_EAC_R11_UNORM"), PFG("PFG_EAC_R11_SNORM"),
     PFG("PFG_EAC_R11G11_UNORM"), PFG("PFG_EAC_R11G11_SNORM"),
     PFG("PFG_ATC_RGB"), PFG("PFG_ATC_RGBA_EXPLICIT_ALPHA"),
     PFG("PFG_ATC_RGBA_INTERPOLATED_ALPHA")}
\* cases that swap rgba[0] and rgba[2] after convertToFloat
UnpackSwapCases ==
    {PFG("PFG_BGRA8_UNORM"), PFG("PFG_BGRX8_UNORM"),
     PFG("PFG_BGRA8_UNORM_SRGB"), PFG("PFG_BGRX8_UNORM_SRGB")}

Unpacked(reads, rgba) ==
    [kind |-> "ok", reads |-> reads, exact |-> TRUE, rgba |-> rgba]
UnpackFailed(k) ==
    [kind |-> k, reads |-> 0, exact |-> FALSE,
     rgba |-> <<Zero, Zero, Zero, Zero>>]

\* case PFG_R10G10B10A2_UNORM
unpackR10G10B10A2_UNORM(srcPtr) ==
    Unpacked(4, <<Rat(Field(srcPtr, 0, 10), 1023), Rat(Field(srcPtr, 10, 10), 1023),
                  Rat(Field(srcPtr, 20, 10), 1023), Rat(Field(srcPtr, 30, 2), 3)>>)

\* case PFG_R10G10B10A2_UINT
unpackR10G10B10A2_UINT(srcPtr) ==
    Unpacked(4, <<Rat(Field(srcPtr, 0, 10), 1), Rat(Field(srcPtr, 10, 10), 1),
                  Rat(Field(srcPtr, 20, 10), 1), Rat(Field(srcPtr, 30, 2), 1)>>)

\* the uint32 at srcPtr as a number (below 2^31 for the memories drawn)
Uint32At(srcPtr) == Field(srcPtr, 0, 31)

\* case PFG_D24_UNORM: the whole uint32 is divided
unpackD24_UNORM(srcPtr) ==
    Unpacked(4, <<Rat(Uint32At(srcPtr), 16777215), Zero, Zero, One>>)

\* case PFG_D24_UNORM_S8_UINT
unpackD24_UNORM_S8_UINT(srcPtr) ==
    Unpacked(4, <<Rat(Field(srcPtr, 0, 24), 16777215), Rat(Field(srcPtr, 24, 8), 1),
                  Zero, One>>)

\* case PFG_A8_UNORM: a uint32 is read and converted without a division
unpackA8_UNORM(srcPtr) ==
    Unpacked(4, <<Zero, Zero, Zero, Rat(Uint32At(srcPtr), 1)>>)

\* case PFG_B5G6R5_UNORM
unpackB5G6R5_UNORM(srcPtr) ==
    Unpacked(2, <<Rat(Field(srcPtr, 11, 5), 31), Rat(Field(srcPtr, 5, 6), 63),
                  Rat(Field(srcPtr, 0, 5), 31), One>>)

\* case PFG_B5G5R5A1_UNORM
unpackB5G5R5A1_UNORM(srcPtr) ==
    Unpacked(2, <<Rat(Field(srcPtr, 10, 5), 31), Rat(Field(srcPtr, 5, 5), 31),
                  Rat(Field(srcPtr, 0, 5), 31),
                  IF Field(srcPtr, 15, 1) = 0 THEN Zero ELSE One>>)

\* case PFG_B4G4R4A4_UNORM
unpackB4G4R4A4_UNORM(srcPtr) ==
    Unpacked(2, <<Rat(Field(srcPtr, 8, 4), 15), Rat(Field(srcPtr, 4, 4), 15),
                  Rat(Field(srcPtr, 0, 4), 15), Rat(Field(srcPtr, 12, 4), 15)>>)

\* std::swap( rgba[0], rgba[2] )
swapRedBlue(r) == [r EXCEPT !.rgba = <<r.rgba[3], r.rgba[2], r.rgba[1], r.rgba[4]>>]

unpackColour(fmt, srcPtr) ==
    LET flags == getFlags(fmt)
    IN  IF \E c \in UnpackUniformCases : c[1] = fmt
          THEN LET c == CHOOSE c \in UnpackUniformCases : c[1] = fmt
                   r == convertToFloat(srcPtr, c[2], c[3], flags)
               IN  IF fmt \in UnpackSwapCases THEN swapRedBlue(r) ELSE r
        ELSE IF fmt = PFG_D32_FLOAT_S8X24_UINT
          THEN [kind |-> "ok", reads |-> 8, exact |-> FALSE,
                rgba |-> <<Zero, Zero, Zero, One>>]
        ELSE IF fmt = PFG_R10G10B10A2_UNORM
          THEN unpackR10G10B10A2_UNORM(srcPtr)
        ELSE IF fmt = PFG_R10G10B10A2_UINT
          THEN unpackR10G10B10A2_UINT(srcPtr)
        ELSE IF fmt = PFG_D24_UNORM THEN unpackD24_UNORM(srcPtr)
        ELSE IF fmt = PFG_D24_UNORM_S8_UINT
          THEN unpackD24_UNORM_S8_UINT(srcPtr)
        ELSE IF fmt = PFG_A8_UNORM THEN unpackA8_UNORM(srcPtr)
        ELSE IF fmt = PFG_B5G6R5_UNORM THEN unpackB5G6R5_UNORM(srcPtr)
        ELSE IF fmt = PFG_B5G5R5A1_UNORM THEN unpackB5G5R5A1_UNORM(srcPtr)
        ELSE IF fmt = PFG_B4G4R4A4_UNORM THEN unpackB4G4R4A4_UNORM(srcPtr)
        ELSE IF fmt \in UnpackNotImplementedCases
          THEN UnpackFailed("NotImplemented")
        ELSE IF fmt \in UnpackInvalidParamsCases
          THEN UnpackFailed("InvalidParams")
        ELSE [kind |-> "ok", reads |-> 0, exact |-> FALSE,
              rgba |-> <<Zero, Zero, Zero, Zero>>]

(***************************************************************************)
(* The colour codec as a state machine: packColour then unpackColour on    *)
(* the bytes just written (pc "pack", "packed", "roundtrip"), or           *)
(* unpackColour then packColour of the floats just read (pc "unpack",      *)
(* "unpacked", "repacked").                                                *)
(***************************************************************************)
\* channel values drawn: k / ColourDen for k in -ColourDen-1 .. ColourDen+1
Channels == {Rat(k, ColourDen) : k \in (-ColourDen - 1)..(ColourDen + 1)}
Colours == {<<r, g, b, a>> : r \in Channels, g \in Channels, b \in Channels,
                             a \in Channels}
\* byte values drawn for the memory a pixel is read from
ByteValues == {0, 1, 127, 128, 129, 254, 255}
\* byte values the destination memory holds before a pixel is written
FillBytes == {0, 85}

\* formats whose pack and unpack results are modelled by value
ExactFormats ==
    {f \in AllFormats :
        /\ packColour(<<Zero, Zero, Zero, Zero>>, f).exact
        /\ unpackColour(f, <<0, 0, 0, 0, 0, 0, 0, 0>>).exact}
\* formats that read the uint32 at srcPtr as one number
WholeWordReaders == {PFG("PFG_A8_UNORM"), PFG("PFG_D24_UNORM")}

\* the memory at the pixel pointer: the pixel and the three bytes after it
MemLen(f) == Max(getBytesPerPixel(f), 1) + 3
DrawnMem(f, b) == [i \in 1..MemLen(f) |-> b[((i - 1) % 4) + 1]]

InitCodec ==
    /\ SizeIdle /\ BulkIdle
    /\ pf \in AllFormats
    /\ pc \in {"pack", "unpack"}
    /\ IF pc = "pack"
         THEN /\ rgbaPtr \in (IF pf \in ExactFormats THEN Colours
                              ELSE {<<Zero, Zero, Zero, One>>})
              /\ \E fill \in FillBytes : mem = [i \in 1..MemLen(pf) |-> fill]
         ELSE /\ rgbaPtr = <<Zero, Zero, Zero, Zero>>
              /\ \E b \in [1..4 -> ByteValues] :
                    /\ pf \in WholeWordReaders => b[4] < 128
                    /\ pf \notin ExactFormats => b = [i \in 1..4 |-> 0]
                    /\ mem = DrawnMem(pf, b)
    /\ call = [rgba |-> rgbaPtr, mem |-> mem]
    /\ result = [op |-> "none", kind |-> "none", value |-> 0]

\* void packColour( const float *rgbaPtr, PixelFormatGpu pf, void *dstPtr )
PackColour ==
    /\ pc \in {"pack", "unpacked"}
    /\ \E r \in {packColour(rgbaPtr, pf)} :
           /\ result' = [op |-> "packColour", kind |-> r.kind, value |-> r.size]
           /\ IF r.kind = "ok" /\ r.exact
                THEN /\ mem' = WriteAt(mem, 0, r.bytes)
                     /\ pc' = (IF pc = "pack" THEN "packed" ELSE "repacked")
              ELSE IF r.kind = "ok"
                THEN mem' = mem /\ pc' = "opaque"
              ELSE IF r.kind = "undefined"
                THEN /\ \E b \in ByteValues :
                            mem' = WriteAt(mem, 0, [i \in 1..r.size |-> b])
                     /\ pc' = "undefined"
              ELSE mem' = mem /\ pc' = "failed"
    /\ UNCHANGED <<pf, rgbaPtr, call, sizeVars, bulkVars>>

\* void unpackColour( float *rgbaPtr, PixelFormatGpu pf, const void *srcPtr )
UnpackColour ==
    /\ pc \in {"unpack", "packed"}
    /\ \E r \in {unpackColour(pf, mem)} :
           /\ result' = [op |-> "unpackColour", kind |-> r.kind, value |-> r.reads]
           /\ IF r.kind = "ok" /\ r.exact
                THEN /\ rgbaPtr' = r.rgba
                     /\ pc' = (IF pc = "unpack" THEN "unpacked" ELSE "roundtrip")
              ELSE IF r.kind = "ok"
                THEN rgbaPtr' = rgbaPtr /\ pc' = "opaque"
              ELSE rgbaPtr' = rgbaPtr /\ pc' = "failed"
    /\ UNCHANGED <<pf, mem, call, sizeVars, bulkVars>>

NextCodec == PackColour \/ UnpackColour
SpecCodec == InitCodec /\ [][NextCodec]_vars

(***************************************************************************)
(* TextureBox.  A box is the record of its fields; data holds the bytes of *)
(* the memory its data pointer refers to, and every pointer into that      *)
(* memory is the offset from data.                                         *)
(***************************************************************************)
getZOrSlice(box) == Max(box.z, box.sliceStart)
getDepthOrSlices(box) == Max(box.depth, box.numSlices)
getMaxSlice(box) == box.sliceStart + box.numSlices
equalSize(box, other) ==
    /\ box.width = other.width /\ box.height = other.height
    /\ box.depth = other.depth /\ box.numSlices = other.numSlices
\* void* at( xPos, yPos, zPos )
at(box, xPos, yPos, zPos) ==
    (zPos * box.bytesPerImage) + (yPos * box.bytesPerRow)
        + (xPos * box.bytesPerPixel)

(***************************************************************************)
(* memcpy between two buffers.  ok is FALSE when the copy leaves either    *)
(* buffer, which is undefined; data is then the destination with the part  *)
(* of the copy that lies inside both buffers.                              *)
(***************************************************************************)
memcpy(dstData, dstOff, srcData, srcOff, n) ==
    [ok |-> srcOff + n <= Len(srcData) /\ dstOff + n <= Len(dstData),
     data |-> [i \in 1..Len(dstData) |->
                  IF /\ i > dstOff /\ i <= dstOff + n
                     /\ (i - dstOff) + srcOff <= Len(srcData)
                    THEN srcData[(i - dstOff) + srcOff]
                  ELSE dstData[i]]]

\* a sequence of memcpy calls [dstOff, srcOff, n], executed in order
RECURSIVE copyAll(_, _, _, _)
copyAll(copies, k, srcData, acc) ==
    IF k > Len(copies) THEN acc
    ELSE LET c == copies[k]
             m == memcpy(acc.data, c.dstOff, srcData, c.srcOff, c.n)
         IN  copyAll(copies, k + 1, srcData,
                     [ok |-> acc.ok /\ m.ok, data |-> m.data])

(***************************************************************************)
(* bulkPixelConversion.  The result is [kind, data, converted]: the        *)
(* outcome ("ok", the exception signalled, or "undefined"), the bytes of   *)
(* the destination memory afterwards, and the pixels <<x, y, z>> handed to *)
(* unpackColour, in order.                                                 *)
(***************************************************************************)
BulkResult(kind, data, converted) ==
    [kind |-> kind, data |-> data, converted |-> converted]
Copied(m) == BulkResult(IF m.ok THEN "ok" ELSE "undefined", m.data, <<>>)

\* the condition of the raw copy
rawCopyCondition(srcBox, srcFmt, dstBox, dstFmt) ==
    /\ srcBox.bytesPerImage = dstBox.bytesPerImage
    /\ srcFmt = dstFmt
    /\ srcBox.x = 0 /\ dstBox.x = 0
    /\ srcBox.y = 0 /\ dstBox.y = 0
    /\ srcBox.z = 0 /\ dstBox.z = 0

\* the raw copy replaced by one that starts at slice 0 of both boxes
rawCopy_FromFirstSlice(srcBox, dstBox) ==
    Copied(memcpy(dstBox.data, at(dstBox, 0, 0, 0),
                  srcBox.data, at(srcBox, 0, 0, 0),
                  srcBox.bytesPerImage * srcBox.numSlices))
\* Easy case. Raw copy.
rawCopy(srcBox, dstBox) ==
    Copied(memcpy(dstBox.data, at(dstBox, 0, 0, dstBox.sliceStart),
                  srcBox.data, at(srcBox, 0, 0, srcBox.sliceStart),
                  srcBox.bytesPerImage * srcBox.numSlices))

\* the test for compressed formats replaced by one that needs both
recodesCompressed_Both(srcFmt, dstFmt) ==
    isCompressed(srcFmt) /\ isCompressed(dstFmt)
\* if( isCompressed( srcFormat ) || isCompressed( dstFormat ) )
recodesCompressed(srcFmt, dstFmt) ==
    isCompressed(srcFmt) \/ isCompressed(dstFmt)

\* the copy of the rows of blocks of a compressed format
compressedCopy(srcBox, dstBox, dstFmt) ==
    LET blockWidth == getCompressedBlockWidth(dstFmt, FALSE)
        blockHeight == getCompressedBlockHeight(dstFmt, FALSE)
    IN  IF blockWidth = 0 \/ blockHeight = 0
          THEN BulkResult("NotImplemented", dstBox.data, <<>>)
        ELSE
          LET srcptr == ((srcBox.x + blockWidth - 1) \div blockWidth)
                        + (((srcBox.y + blockHeight - 1) \div blockHeight)
                              * srcBox.bytesPerRow)
                        + (getZOrSlice(srcBox) * srcBox.bytesPerImage)
              dstptr == ((dstBox.x + blockWidth - 1) \div blockWidth)
                        + (((dstBox.y + blockHeight - 1) \div blockHeight)
                              * dstBox.bytesPerRow)
                        + (getZOrSlice(dstBox) * dstBox.bytesPerImage)
              srcBytesPerRow == srcBox.bytesPerRow
              srcSliceSkipBytes == srcBox.bytesPerImage
              dstBytesPerRow == dstBox.bytesPerRow
              dstSliceSkipBytes == dstBox.bytesPerImage
              compressedSrcY == (srcBox.y + blockHeight - 1) \div blockHeight
              compressedSrcMaxY ==
                  (srcBox.y + srcBox.height + blockHeight - 1) \div blockHeight
              \* z runs from getZOrSlice() to getZOrSlice() + getMaxSlice()
              numZ == getMaxSlice(srcBox)
              numY == compressedSrcMaxY - compressedSrcY
              copies ==
                  [k \in 1..(numZ * numY) |->
                      LET z == (k - 1) \div numY
                          y == (k - 1) % numY
                      IN  [dstOff |-> dstptr + (z * dstSliceSkipBytes)
                                      + (y * dstBytesPerRow),
                           srcOff |-> srcptr + (z * srcSliceSkipBytes)
                                      + (y * srcBytesPerRow),
                           n |-> srcBytesPerRow]]
          IN  Copied(copyAll(copies, 1, srcBox.data,
                             [ok |-> TRUE, data |-> dstBox.data]))

\* The easy case: the same uncompressed format, copied row by row
rowCopy(srcBox, dstBox) ==
    LET srcData == at(srcBox, srcBox.x, srcBox.y, getZOrSlice(srcBox))
        dstData == at(dstBox, dstBox.x, dstBox.y, getZOrSlice(dstBox))
        copies ==
            [k \in 1..(getDepthOrSlices(srcBox) * srcBox.height) |->
                LET z == (k - 1) \div srcBox.height
                    y == (k - 1) % srcBox.height
                IN  [dstOff |-> dstData + (dstBox.bytesPerImage * z)
                                + (dstBox.bytesPerRow * y),
                     srcOff |-> srcData + (srcBox.bytesPerImage * z)
                                + (srcBox.bytesPerRow * y),
                     n |-> srcBox.width * srcBox.bytesPerPixel]]
    IN  Copied(copyAll(copies, 1, srcBox.data,
                       [ok |-> TRUE, data |-> dstBox.data]))

\* the memory at a pointer: the bytes from offset off on, and zeros where the
\* buffer has ended (a read there is undefined and is reported as such)
MemoryAt(data, off) ==
    [i \in 1..8 |-> IF off + i <= Len(data) THEN data[off + i] ELSE 0]

\* a packColour that clears the first byte of the pixel before it raises
storePixel_ClearsFirst(p, dstPtr, data, visited) ==
    IF p.kind # "ok"
      THEN BulkResult(p.kind, WriteAt(data, dstPtr, <<0>>), visited)
    ELSE IF dstPtr + p.size > Len(data) \/ ~p.exact
      THEN BulkResult("undefined", data, visited)
    ELSE BulkResult("ok", WriteAt(data, dstPtr, p.bytes), visited)
\* packColour( rgba, dstFormat, dstPtr ) with the outcome p of packColour
storePixel(p, dstPtr, data, visited) ==
    IF p.kind # "ok" THEN BulkResult(p.kind, data, visited)
    ELSE IF dstPtr + p.size > Len(data) \/ ~p.exact
      THEN BulkResult("undefined", data, visited)
    ELSE BulkResult("ok", WriteAt(data, dstPtr, p.bytes), visited)

\* the body of the innermost loop with the outcome u of unpackColour, where
\* srcLeft bytes of the source memory lie at and after srcPtr
convertPixel(u, srcLeft, dstFmt, dstPtr, data, visited) ==
    IF u.kind # "ok" THEN BulkResult(u.kind, data, visited)
    ELSE IF u.reads > srcLeft \/ ~u.exact
      THEN BulkResult("undefined", data, visited)
    ELSE storePixel(packColour(u.rgba, dstFmt), dstPtr, data, visited)

\* The brute force fallback, from its k-th pixel on (k counts from 0 in the
\* order of the loops over z, y and x); acc is the outcome so far
RECURSIVE bruteForceFrom(_, _, _, _, _, _)
bruteForceFrom(k, srcBox, srcFmt, dstBox, dstFmt, acc) ==
    LET w == srcBox.width
        h == srcBox.height
        depthOrSlices == getDepthOrSlices(srcBox)
    IN  IF acc.kind # "ok" \/ k >= w * h * depthOrSlices THEN acc
        ELSE
          LET x == k % w
              y == (k \div w) % h
              z == k \div (w * h)
              srcData == at(srcBox, srcBox.x, srcBox.y, getZOrSlice(srcBox))
              dstData == at(dstBox, dstBox.x, dstBox.y, getZOrSlice(dstBox))
              srcPtr == srcData + (srcBox.bytesPerImage * z)
                        + (srcBox.bytesPerRow * y) + (x * srcBox.bytesPerPixel)
              dstPtr == dstData + (dstBox.bytesPerImage * z)
                        + (dstBox.bytesPerRow * y) + (x * dstBox.bytesPerPixel)
          IN  bruteForceFrom(k + 1, srcBox, srcFmt, dstBox, dstFmt,
                  convertPixel(
                      unpackColour(srcFmt, MemoryAt(srcBox.data, srcPtr)),
                      Len(srcBox.data) - srcPtr, dstFmt, dstPtr, acc.data,
                      Append(acc.converted, <<x, y, z>>)))

\* the function without its row copy of a same uncompressed format
bulkPixelConversion_NoRowCopy(srcBox, srcFmt, dstBox, dstFmt) ==
    IF rawCopyCondition(srcBox, srcFmt, dstBox, dstFmt)
      THEN rawCopy(srcBox, dstBox)
    ELSE IF recodesCompressed(srcFmt, dstFmt)
      THEN IF srcFmt = dstFmt THEN compressedCopy(srcBox, dstBox, dstFmt)
           ELSE BulkResult("NotImplemented", dstBox.data, <<>>)
    ELSE bruteForceFrom(0, srcBox, srcFmt, dstBox, dstFmt,
                        BulkResult("ok", dstBox.data, <<>>))
\* the function with the test for compressed formats before the raw copy
bulkPixelConversion_CompressedFirst(srcBox, srcFmt, dstBox, dstFmt) ==
    IF recodesCompressed(srcFmt, dstFmt)
      THEN IF srcFmt = dstFmt THEN compressedCopy(srcBox, dstBox, dstFmt)
           ELSE BulkResult("NotImplemented", dstBox.data, <<>>)
    ELSE IF rawCopyCondition(srcBox, srcFmt, dstBox, dstFmt)
      THEN rawCopy(srcBox, dstBox)
    ELSE IF srcFmt = dstFmt THEN rowCopy(srcBox, dstBox)
    ELSE bruteForceFrom(0, srcBox, srcFmt, dstBox, dstFmt,
                        BulkResult("ok", dstBox.data, <<>>))
bulkPixelConversion(srcBox, srcFmt, dstBox, dstFmt) ==
    IF rawCopyCondition(srcBox, srcFmt, dstBox, dstFmt)
      THEN rawCopy(srcBox, dstBox)
    ELSE IF recodesCompressed(srcFmt, dstFmt)
      THEN IF srcFmt = dstFmt THEN compressedCopy(srcBox, dstBox, dstFmt)
           ELSE BulkResult("NotImplemented", dstBox.data, <<>>)
    ELSE IF srcFmt = dstFmt THEN rowCopy(srcBox, dstBox)
    ELSE bruteForceFrom(0, srcBox, srcFmt, dstBox, dstFmt,
                        BulkResult("ok", dstBox.data, <<>>))

\* the branch of bulkPixelConversion a call takes
copyPath(srcBox, srcFmt, dstBox, dstFmt) ==
    IF rawCopyCondition(srcBox, srcFmt, dstBox, dstFmt) THEN "raw"
    ELSE IF recodesCompressed(srcFmt, dstFmt) THEN "compressed"
    ELSE IF srcFmt = dstFmt THEN "rows"
    ELSE "pixels"

(***************************************************************************)
(* bulkPixelConversion as a state machine: one call on two boxes, each a   *)
(* region of its own buffer, of equal size (the assertion of the function) *)
(* or with a destination region one pixel wider.                           *)
(***************************************************************************)
BulkFormats ==
    {PFG_R8_UNORM, PFG_A8_UNORM, PFG_RGBA8_UNORM, PFG_P8, PFG_BC1_UNORM,
     PFG_PVRTC_RGB2}

\* the extents drawn: width and height, and <<depth, numSlices>>
Extents == 1..MaxExtent
Depths == {<<1, 1>>, <<MaxExtent, 1>>, <<1, MaxExtent>>}

\* the offsets <<x, y, z, sliceStart>> drawn for a box of format fmt
Origins(fmt) ==
    {<<0, 0, 0, 0>>, <<1, 0, 0, 0>>, <<0, 1, 0, 0>>, <<0, 0, 1, 0>>,
     <<0, 0, 0, 1>>}
    \cup (IF getCompressedBlockWidth(fmt, FALSE) = 4
            THEN {<<4, 0, 0, 0>>, <<0, 4, 0, 0>>} ELSE {})

\* the padding drawn: <<columns after the region, rows after the region>>
\* (columns and rows of blocks for a compressed format)
Paddings(fmt) ==
    IF isCompressed(fmt) /\ getCompressedBlockWidth(fmt, FALSE) = 0
      THEN {<<0, 0>>, <<16, 0>>}
    ELSE {<<0, 0>>, <<1, 0>>, <<0, 2>>}

\* the row and image pitch of a buffer that holds the region
Pitch(fmt, o, p, w, h) ==
    IF ~isCompressed(fmt)
      THEN LET row == (o[1] + w + p[1]) * getBytesPerPixel(fmt)
           IN  <<row, row * (o[2] + h + p[2])>>
    ELSE IF getCompressedBlockWidth(fmt, FALSE) = 0
      THEN LET all == getSizeBytes(o[1] + w + p[1], o[2] + h + p[2], 1, 1,
                                   fmt, 1).value
           IN  <<all, all>>
    ELSE LET row == (((o[1] + w + 3) \div 4) + p[1])
                        * getSizeBytes(4, 4, 1, 1, fmt, 1).value
         IN  <<row, row * (((o[2] + h + 3) \div 4) + p[2])>>

\* the byte at offset i of a buffer before the call: the source memory
\* holds 0..126 and the destination memory 128..254
Fill(side, i) == IF side = "src" THEN i % 127 ELSE 128 + (i % 127)

\* the box of format fmt at origin o with padding p, and its memory
Box(fmt, o, p, w, h, ds, side) ==
    LET pitch == Pitch(fmt, o, p, w, h)
        images == Max(o[3], o[4]) + Max(ds[1], ds[2])
    IN  [x |-> o[1], y |-> o[2], z |-> o[3], sliceStart |-> o[4],
         width |-> w, height |-> h, depth |-> ds[1], numSlices |-> ds[2],
         bytesPerPixel |-> getBytesPerPixel(fmt),
         bytesPerRow |-> pitch[1], bytesPerImage |-> pitch[2],
         data |-> [i \in 1..(pitch[2] * images) |-> Fill(side, i - 1)]]

InitBulk ==
    /\ SizeIdle /\ CodecIdle
    /\ pc = "call"
    /\ srcFormat \in BulkFormats
    /\ dstFormat \in BulkFormats
    /\ \E w \in Extents, h \in Extents, ds \in Depths :
          /\ \E o \in Origins(srcFormat), p \in Paddings(srcFormat) :
                src = Box(srcFormat, o, p, w, h, ds, "src")
          /\ \E o \in Origins(dstFormat), p \in Paddings(dstFormat),
                   wider \in {0, 1} :
                /\ wider = 1 => (p = <<0, 0>> /\ o[3] = 0 /\ o[4] = 0)
                /\ dst = Box(dstFormat, o, p, w + wider, h, ds, "dst")
    /\ call = [src |-> src, dst |-> dst]
    /\ result = [op |-> "none", kind |-> "none", value |-> 0]

\* void bulkPixelConversion( src, srcFormat, dst, dstFormat ), on the branch
\* path; where the behaviour is undefined the destination memory is either
\* untouched or holds what was written inside the buffer
BulkPixelConversion(path) ==
    /\ pc = "call"
    /\ equalSize(src, dst)
    /\ copyPath(src, srcFormat, dst, dstFormat) = path
    /\ \E r \in {bulkPixelConversion(src, srcFormat, dst, dstFormat)} :
           /\ result' = [op |-> "bulkPixelConversion", kind |-> r.kind,
                         value |-> r.converted]
           /\ IF r.kind = "undefined"
                THEN /\ dst' \in {dst, [dst EXCEPT !.data = r.data]}
                     /\ pc' = "undefined"
                ELSE /\ dst' = [dst EXCEPT !.data = r.data]
                     /\ pc' = (IF r.kind = "ok" THEN "done" ELSE "failed")
    /\ UNCHANGED <<src, srcFormat, dstFormat, call, sizeVars, codecVars>>

\* assert( src.equalSize( dst ) ) on boxes of different sizes: the program
\* stops there, or, built with NDEBUG, goes on with the extents of src
BulkAssertion ==
    /\ pc = "call"
    /\ ~equalSize(src, dst)
    /\ \E asserts \in BOOLEAN :
        \E r \in {IF asserts THEN BulkResult("assert", dst.data, <<>>)
                  ELSE bulkPixelConversion(src, srcFormat, dst, dstFormat)} :
           /\ result' = [op |-> "bulkPixelConversion", kind |-> r.kind,
                         value |-> r.converted]
           /\ IF r.kind = "undefined"
                THEN /\ dst' \in {dst, [dst EXCEPT !.data = r.data]}
                     /\ pc' = "undefined"
                ELSE /\ dst' = [dst EXCEPT !.data = r.data]
                     /\ pc' = (IF r.kind = "ok" THEN "done"
                               ELSE IF r.kind = "assert" THEN "aborted"
                               ELSE "failed")
    /\ UNCHANGED <<src, srcFormat, dstFormat, call, sizeVars, codecVars>>

BulkRawCopy == BulkPixelConversion("raw")
BulkCompressed == BulkPixelConversion("compressed")
BulkRowCopy == BulkPixelConversion("rows")
BulkBruteForce == BulkPixelConversion("pixels")

NextBulk ==
    \/ BulkRawCopy \/ BulkCompressed \/ BulkRowCopy \/ BulkBruteForce
    \/ BulkAssertion
SpecBulk == InitBulk /\ [][NextBulk]_vars

(***************************************************************************)
(* Two calls of bulkPixelConversion running at the same time.  Both        *)
(* destination boxes are regions of one buffer, disjoint as rectangles of  *)
(* pixels; every call reads a source buffer of its own.  A call stores the *)
(* bytes it writes one at a time, in any order, and the stores of the two  *)
(* calls interleave.  pc[k] is the position of call k, result[k] the       *)
(* offsets call k has still to store, and dst the shared memory.           *)
(***************************************************************************)
\* the buffers the two regions lie in: <<columns, rows>> of pixels
PairBuffers == {<<1, 2>>, <<2, 1>>, <<2, 2>>}
PairSourceFormats == {PFG_R8_UNORM, PFG_RGBA8_UNORM}
\* the rectangles <<x, y, width, height>> of a buffer
Regions(buf) ==
    {r \in (0..(buf[1] - 1)) \X (0..(buf[2] - 1)) \X (1..buf[1]) \X (1..buf[2]) :
        r[1] + r[3] <= buf[1] /\ r[2] + r[4] <= buf[2]}
\* two rectangles without a common pixel
Disjoint(r, q) ==
    \/ r[1] + r[3] <= q[1] \/ q[1] + q[3] <= r[1]
    \/ r[2] + r[4] <= q[2] \/ q[2] + q[4] <= r[2]

\* the arguments of a call whose destination is the rectangle r of the
\* buffer buf: the bytes of its source are those of Fill plus shift
PairCall(fmt, buf, r, o, p, shift) ==
    LET b == Box(fmt, o, p, r[3], r[4], <<1, 1>>, "src")
    IN  [srcFormat |-> fmt, dstFormat |-> PFG_R8_UNORM,
         src |-> [b EXCEPT !.data = [i \in 1..Len(b.data) |-> b.data[i] + shift]],
         dst |-> Box(PFG_R8_UNORM, <<r[1], r[2], 0, 0>>,
                     <<buf[1] - (r[1] + r[3]), buf[2] - (r[2] + r[4])>>,
                     r[3], r[4], <<1, 1>>, "dst")]

\* what a call leaves in the destination memory when it runs alone
PairOutcome(c) == bulkPixelConversion(c.src, c.srcFormat, c.dst, c.dstFormat)
\* the offsets a call stores to: those whose byte afterwards does not depend
\* on the byte before
PairWrites(c) ==
    LET other == [c.dst EXCEPT !.data = [i \in 1..Len(c.dst.data) |->
                                            255 - c.dst.data[i]]]
        again == bulkPixelConversion(c.src, c.srcFormat, other, c.dstFormat)
    IN  {i \in 1..Len(c.dst.data) : PairOutcome(c).data[i] = again.data[i]}

InitPair ==
    /\ SizeIdle /\ CodecIdle
    /\ src = <<>> /\ srcFormat = 0 /\ dstFormat = PFG_R8_UNORM
    /\ \E buf \in PairBuffers :
        \E r \in Regions(buf), q \in Regions(buf) :
          /\ Disjoint(r, q)
          /\ \E f \in PairSourceFormats, g \in PairSourceFormats,
                o \in {<<0, 0, 0, 0>>, <<1, 0, 0, 0>>},
                n \in {<<0, 0, 0, 0>>, <<1, 0, 0, 0>>},
                p \in {<<0, 0>>, <<1, 0>>}, m \in {<<0, 0>>, <<1, 0>>} :
                call = <<PairCall(f, buf, r, o, p, 0),
                         PairCall(g, buf, q, n, m, 64)>>
    /\ \A k \in 1..2 : PairOutcome(call[k]).kind = "ok"
    /\ dst = [data |-> call[1].dst.data]
    /\ pc = <<"call", "call">>
    /\ result = <<{}, {}>>

\* call k enters bulkPixelConversion and chooses its copy path
PairEnter(k) ==
    /\ pc[k] = "call"
    /\ result' = [result EXCEPT ![k] = PairWrites(call[k])]
    /\ pc' = [pc EXCEPT ![k] = "copying"]
    /\ UNCHANGED <<call, sizeVars, codecVars, bulkVars>>

\* call k stores one byte: of a memcpy, or of a pixel packColour wrote
PairStore(k) ==
    /\ pc[k] = "copying"
    /\ \E i \in result[k] :
          /\ dst' = [dst EXCEPT !.data[i] = PairOutcome(call[k]).data[i]]
          /\ result' = [result EXCEPT ![k] = @ \ {i}]
          /\ pc' = [pc EXCEPT ![k] = IF result[k] = {i} THEN "done"
                                     ELSE "copying"]
    /\ UNCHANGED <<call, src, srcFormat, dstFormat, sizeVars, codecVars>>

NextPair == \E k \in 1..2 : PairEnter(k) \/ PairStore(k)
SpecPair == InitPair /\ [][NextPair]_vars

(***************************************************************************)
(* getMaxMipmapCount.  A positive float is <<m, e>> with 2^23 <= m < 2^24, *)
(* the number m * 2^e.                                                     *)
(***************************************************************************)
\* the position of the highest bit set in n > 0
RECURSIVE HighBit(_)
HighBit(n) == IF n <= 1 THEN 0 ELSE 1 + HighBit(n \div 2)

\* static_cast<float>( n ) for n > 0: n rounded to 24 significant bits, ties
\* to the even mantissa
toFloat(n) ==
    LET k == HighBit(n)
    IN  IF k <= 23 THEN <<n * Pow2(23 - k), k - 23>>
        ELSE LET s == k - 23
                 q == n \div Pow2(s)
                 r == n % Pow2(s)
                 half == Pow2(s - 1)
                 up == r > half \/ (r = half /\ q % 2 = 1)
             IN  IF ~up THEN <<q, s>>
                 ELSE IF q + 1 = Pow2(24) THEN <<Pow2(23), s + 1>>
                 ELSE <<q + 1, s>>

\* the values floorf( log2f( x ) ) can have.  The logarithm of m * 2^e lies
\* in [23 + e, 24 + e); where it is closer to 24 + e than half the spacing
\* of the floats below 24 + e (2^-20 for the integers 17..32, which is
\* 2^24 - m <= 11), log2f returns 24 + e when it rounds to nearest, and the
\* float below it otherwise: the accuracy of log2f decides
floorLog2f(x) ==
    IF x[1] # Pow2(23) /\ 24 + x[2] > 16 /\ Pow2(24) - x[1] <= 11
      THEN {23 + x[2], 24 + x[2]}
      ELSE {23 + x[2]}

\* uint8 getMaxMipmapCount( uint32 maxResolution ): the values it can return
getMaxMipmapCount(maxResolution) ==
    IF maxResolution = 0 THEN {0}
    ELSE {lg + 1 : lg \in floorLog2f(toFloat(maxResolution))}

\* uint8 getMaxMipmapCount( uint32 width, uint32 height )
getMaxMipmapCount2(w, h) == getMaxMipmapCount(Max(w, h))
\* uint8 getMaxMipmapCount( uint32 width, uint32 height, uint32 depth )
getMaxMipmapCount3(w, h, d) == getMaxMipmapCount(Max(Max(w, h), d))

(***************************************************************************)
(* getFamily.                                                              *)
(***************************************************************************)
\* the case labels of the switch, each with the format its group returns
FamilyCases ==
    {<<PFG("PFG_RGBA32_FLOAT"), PFG("PFG_RGBA32_UINT")>>,
     <<PFG("PFG_RGBA32_UINT"), PFG("PFG_RGBA32_UINT")>>,
     <<PFG("PFG_RGBA32_SINT"), PFG("PFG_RGBA32_UINT")>>,
     <<PFG("PFG_RGB32_FLOAT"), PFG("PFG_RGB32_UINT")>>,
     <<PFG("PFG_RGB32_UINT"), PFG("PFG_RGB32_UINT")>>,
     <<PFG("PFG_RGB32_SINT"), PFG("PFG_RGB32_UINT")>>,
     <<PFG("PFG_RGBA16_FLOAT"), PFG("PFG_RGBA16_UINT")>>,
     <<PFG("PFG_RGBA16_UNORM"), PFG("PFG_RGBA16_UINT")>>,
     <<PFG("PFG_RGBA16_UINT"), PFG("PFG_RGBA16_UINT")>>,
     <<PFG("PFG_RGBA16_SNORM"), PFG("PFG_RGBA16_UINT")>>,
     <<PFG("PFG_RGBA16_SINT"), PFG("PFG_RGBA16_UINT")>>,
     <<PFG("PFG_RG32_FLOAT"), PFG("PFG_RG32_UINT")>>,
     <<PFG("PFG_RG32_UINT"), PFG("PFG_RG32_UINT")>>,
     <<PFG("PFG_RG32_SINT"), PFG("PFG_RG32_UINT")>>,
     <<PFG("PFG_R10G10B10A2_UNORM"), PFG("PFG_R10G10B10A2_UINT")>>,
     <<PFG("PFG_R10G10B10A2_UINT"), PFG("PFG_R10G10B10A2_UINT")>>,
     <<PFG("PFG_R11G11B10_FLOAT"), PFG("PFG_R11G11B10_FLOAT")>>,
     <<PFG("PFG_RGBA8_UNORM"), PFG("PFG_RGBA8_UNORM")>>,
     <<PFG("PFG_RGBA8_UNORM_SRGB"), PFG("PFG_RGBA8_UNORM")>>,
     <<PFG("PFG_RGBA8_UINT"), PFG("PFG_RGBA8_UNORM")>>,
     <<PFG("PFG_RGBA8_SNORM"), PFG("PFG_RGBA8_UNORM")>>,
     <<PFG("PFG_RGBA8_SINT"), PFG("PFG_RGBA8_UNORM")>>,
     <<PFG("PFG_RG16_FLOAT"), PFG("PFG_RG16_UINT")>>,
     <<PFG("PFG_RG16_UNORM"), PFG("PFG_RG16_UINT")>>,
     <<PFG("PFG_RG16_UINT"), PFG("PFG_RG16_UINT")>>,
     <<PFG("PFG_RG16_SNORM"), PFG("PFG_RG16_UINT")>>,
     <<PFG("PFG_RG16_SINT"), PFG("PFG_RG16_UINT")>>,
     <<PFG("PFG_D32_FLOAT"), PFG("PFG_R32_UINT")>>,
     <<PFG("PFG_R32_FLOAT"), PFG("PFG_R32_UINT")>>,
     <<PFG("PFG_R32_UINT"), PFG("PFG_R32_UINT")>>,
     <<PFG("PFG_R32_SINT"), PFG("PFG_R32_UINT")>>,
     <<PFG("PFG_D24_UNORM"), PFG("PFG_D24_UNORM_S8_UINT")>>,
     <<PFG("PFG_D24_UNORM_S8_UINT"), PFG("PFG_D24_UNORM_S8_UINT")>>,
     <<PFG("PFG_RG8_UNORM"), PFG("PFG_RG8_UINT")>>,
     <<PFG("PFG_RG8_UINT"), PFG("PFG_RG8_UINT")>>,
     <<PFG("PFG_RG8_SNORM"), PFG("PFG_RG8_UINT")>>,
     <<PFG("PFG_RG8_SINT"), PFG("PFG_RG8_UINT")>>,
     <<PFG("PFG_R16_FLOAT"), PFG("PFG_R16_UINT")>>,
     <<PFG("PFG_D16_UNORM"), PFG("PFG_R16_UINT")>>,
     <<PFG("PFG_R16_UNORM"), PFG("PFG_R16_UINT")>>,
     <<PFG("PFG_R16_UINT"), PFG("PFG_R16_UINT")>>,
     <<PFG("PFG_R16_SNORM"), PFG("PFG_R16_UINT")>>,
     <<PFG("PFG_R16_SINT"), PFG("PFG_R16_UINT")>>,
     <<PFG("PFG_R8_UNORM"), PFG("PFG_R8_UINT")>>,
     <<PFG("PFG_R8_UINT"), PFG("PFG_R8_UINT")>>,
     <<PFG("PFG_R8_SNORM"), PFG("PFG_R8_UINT")>>,
     <<PFG("PFG_R8_SINT"), PFG("PFG_R8_UINT")>>,
     <<PFG("PFG_A8_UNORM"), PFG("PFG_R8_UINT")>>,
     <<PFG("PFG_R8G8_B8G8_UNORM"), PFG("PFG_R8G8_B8G8_UNORM")>>,
     <<PFG("PFG_G8R8_G8B8_UNORM"), PFG("PFG_R8G8_B8G8_UNORM")>>,
     <<PFG("PFG_BC1_UNORM"), PFG("PFG_BC1_UNORM")>>,
     <<PFG("PFG_BC1_UNORM_SRGB"), PFG("PFG_BC1_UNORM")>>,
     <<PFG("PFG_BC2_UNORM"), PFG("PFG_BC2_UNORM")>>,
     <<PFG("PFG_BC2_UNORM_SRGB"), PFG("PFG_BC2_UNORM")>>,
     <<PFG("PFG_BC3_UNORM"), PFG("PFG_BC3_UNORM")>>,
     <<PFG("PFG_BC3_UNORM_SRGB"), PFG("PFG_BC3_UNORM")>>,
     <<PFG("PFG_BC4_UNORM"), PFG("PFG_BC4_UNORM")>>,
     <<PFG("PFG_BC4_SNORM"), PFG("PFG_BC4_UNORM")>>,
     <<PFG("PFG_BC5_UNORM"), PFG("PFG_BC5_UNORM")>>,
     <<PFG("PFG_BC5_SNORM"), PFG("PFG_BC5_UNORM")>>,
     <<PFG("PFG_BGRA8_UNORM"), PFG("PFG_BGRA8_UNORM")>>,
     <<PFG("PFG_BGRA8_UNORM_SRGB"), PFG("PFG_BGRA8_UNORM")>>,
     <<PFG("PFG_BGRX8_UNORM"), PFG("PFG_BGRX8_UNORM")>>,
     <<PFG("PFG_BGRX8_UNORM_SRGB"), PFG("PFG_BGRX8_UNORM")>>,
     <<PFG("PFG_BC6H_UF16"), PFG("PFG_BC6H_UF16")>>,
     <<PFG("PFG_BC6H_SF16"), PFG("PFG_BC6H_UF16")>>,
     <<PFG("PFG_BC7_UNORM"), PFG("PFG_BC7_UNORM")>>,
     <<PFG("PFG_BC7_UNORM_SRGB"), PFG("PFG_BC7_UNORM")>>}

\* the switch with the 24 bit depth formats returned as a 32 bit float colour
getFamily_DepthAsColour(fmt) ==
    IF fmt = PFG_D24_UNORM \/ fmt = PFG_D24_UNORM_S8_UINT
      THEN PFG("PFG_R32_FLOAT")
      ELSE IF \E c \in FamilyCases : c[1] = fmt
             THEN (CHOOSE c \in FamilyCases : c[1] = fmt)[2]
             ELSE fmt
\* PixelFormatGpu getFamily( PixelFormatGpu format )
getFamily(fmt) ==
    IF \E c \in FamilyCases : c[1] = fmt
      THEN (CHOOSE c \in FamilyCases : c[1] = fmt)[2]
      ELSE fmt

(***************************************************************************)
(* getFormatFromName.                                                      *)
(***************************************************************************)
\* the loop without the test of the flags
getFormatFromName_IgnoresExclusion(name, exclusionFlags) ==
    LET found == {i \in 0..(PFG_COUNT - 1) : toString(i) = name}
    IN  IF found = {} THEN PFG_UNKNOWN
        ELSE CHOOSE i \in found : \A j \in found : i <= j
\* for( int i=0; i<PFG_COUNT; ++i ): the first i that passes both tests
getFormatFromName(name, exclusionFlags) ==
    LET found == {i \in 0..(PFG_COUNT - 1) :
                     /\ getFlags(i) \cap exclusionFlags = {}
                     /\ toString(i) = name}
    IN  IF found = {} THEN PFG_UNKNOWN
        ELSE CHOOSE i \in found : \A j \in found : i <= j
(***************************************************************************)
(* getSizeBytes with the widths of its operands: uint32 is four and size_t *)
(* (LP64) eight digits of base 256, least significant first.  getSizeBytes *)
(* above computes with unbounded integers, which is the same value while   *)
(* no product passes 2^32 - 1; here every operation is cut to the width of *)
(* its C++ type.                                                           *)
(***************************************************************************)
\* the len low digits of the natural n
RECURSIVE Digits(_, _)
Digits(n, len) ==
    IF len = 0 THEN <<>> ELSE <<n % 256>> \o Digits(n \div 256, len - 1)
\* digit i of a, 0 past its length
DigitAt(a, i) == IF i <= Len(a) THEN a[i] ELSE 0
\* a cut or zero-extended to len digits: the conversion to a type of that width
Resize(a, len) == [i \in 1..len |-> DigitAt(a, i)]
\* carry propagation over column sums, the carry out of the last digit lost
RECURSIVE Carry(_, _, _)
Carry(cols, i, c) ==
    IF i > Len(cols) THEN <<>>
    ELSE <<(cols[i] + c) % 256>> \o Carry(cols, i + 1, (cols[i] + c) \div 256)
RECURSIVE ColumnSum(_, _, _, _)
ColumnSum(a, b, k, i) ==
    IF i > k THEN 0
    ELSE (DigitAt(a, i) * DigitAt(b, k + 1 - i)) + ColumnSum(a, b, k, i + 1)
\* a + b and a * b modulo 256^len
AddDigits(a, b, len) ==
    Carry([k \in 1..len |-> DigitAt(a, k) + DigitAt(b, k)], 1, 0)
MulDigits(a, b, len) ==
    Carry([k \in 1..len |-> ColumnSum(a, b, k, 1)], 1, 0)
\* a / k for a small divisor k, digits i down to 1, r the running remainder
RECURSIVE DivDigits(_, _, _, _)
DivDigits(a, k, i, r) ==
    IF i = 0 THEN <<>>
    ELSE DivDigits(a, k, i - 1, ((r * 256) + a[i]) % k)
         \o <<((r * 256) + a[i]) \div k>>
\* std::max<uint32>( a, n ) for n below 256
MaxDigits(a, n) ==
    IF a[1] < n /\ \A i \in 2..Len(a) : a[i] = 0 THEN Digits(n, Len(a)) ELSE a

\* alignToNextMultiple( size_t offset, size_t alignment ) in len digits
alignToNextMultipleWide(offset, alignment, len) ==
    MulDigits(DivDigits(AddDigits(offset, Digits(alignment - 1, len), len),
                        alignment, len, 0),
              Digits(alignment, len), len)

\* getSizeBytes where uint32 has u and size_t has z digits: w, h, d, s are
\* digit sequences, align a small natural
getSizeBytesWide(w, h, d, s, fmt, align, u, z) ==
    IF ~isCompressed(fmt)
      THEN LET row == MulDigits(Resize(w, z), Digits(getBytesPerPixel(fmt), z), z)
               aligned == alignToNextMultipleWide(row, align, z)
               count == MulDigits(MulDigits(h, d, u), s, u)
           IN  Ok(MulDigits(aligned, Resize(count, z), z))
    ELSE IF fmt \in SizeCases8 \cup SizeCases16
      THEN LET bw == DivDigits(AddDigits(w, Digits(3, u), u), 4, u, 0)
               bh == DivDigits(AddDigits(h, Digits(3, u), u), 4, u, 0)
               bytes == Digits(IF fmt \in SizeCases8 THEN 8 ELSE 16, u)
           IN  Ok(Resize(MulDigits(MulDigits(MulDigits(MulDigits(bw, bh, u),
                                                        bytes, u), d, u), s, u), z))
    ELSE IF fmt \in SizeCasesPvrtc2 \cup SizeCasesPvrtc4
      THEN LET mw == MaxDigits(w, IF fmt \in SizeCasesPvrtc2 THEN 16 ELSE 8)
               mh == MaxDigits(h, 8)
               bpp == Digits(IF fmt \in SizeCasesPvrtc2 THEN 2 ELSE 4, u)
               bits == AddDigits(MulDigits(MulDigits(mw, mh, u), bpp, u),
                                 Digits(7, u), u)
           IN  Ok(Resize(MulDigits(MulDigits(DivDigits(bits, 8, u, 0), d, u),
                                   s, u), z))
    ELSE Raise("InvalidParams")

\* the natural a sequence of digits stands for, for values below 2^31
RECURSIVE ValueOf(_)
ValueOf(a) == IF a = <<>> THEN 0 ELSE a[1] + (256 * ValueOf(Tail(a)))
\* extents of 32 bits: small ones, those around 2^16 and the largest
WideExtents ==
    {Digits(1, 4), Digits(3, 4), Digits(65535, 4), Digits(65536, 4),
     <<255, 255, 255, 255>>}
WideFormats ==
    {PFG_R8_UNORM, PFG_RGBA8_UNORM, PFG_BC1_UNORM, PFG("PFG_BC3_UNORM"),
     PFG_PVRTC_RGB2, PFG("PFG_PVRTC_RGB4")}

(***************************************************************************)
(* The queries: one call of a function that only reads the table.          *)
(***************************************************************************)
MaxResolution == 40
\* resolutions around the powers of two up to the largest a float holds
\* exactly, and past it
Resolutions ==
    (0..MaxResolution)
    \cup {255, 256, 65535, 65536, 2097151, 2097152, 16777215, 16777216,
          16777217, 33554431, 33554432, 2147483647}
SmallResolutions == {0, 1, 3, 4, 255, 256}
\* names of the table, names of the enumeration and names of neither
Names ==
    {toString(f) : f \in AllFormats}
    \cup {"PFG_RGBA32_SINT", "PFG_RGB32_SINT", "PFG_COUNT", ""}
ExclusionFlags ==
    SUBSET {"PFF_COMPRESSED", "PFF_SRGB", "PFF_SIGNED", "PFF_DEPTH"}

\* the functions that return a field of the descriptor of a format
TableReaders ==
    {"getBytesPerPixel", "getNumberOfComponents", "toString", "getFlags"}

Query(op, fmt, apiStrict, name, exclusionFlags, dims) ==
    [op |-> op, format |-> fmt, apiStrict |-> apiStrict, name |-> name,
     exclusionFlags |-> exclusionFlags, dims |-> dims]
QueryCalls ==
    {Query("getMaxMipmapCount", 0, FALSE, "", {}, <<n>>) : n \in Resolutions}
    \cup {Query("getMaxMipmapCount", 0, FALSE, "", {}, <<w, h>>) :
            w \in SmallResolutions, h \in SmallResolutions}
    \cup {Query("getMaxMipmapCount", 0, FALSE, "", {}, <<w, h, d>>) :
            w \in SmallResolutions, h \in SmallResolutions,
            d \in SmallResolutions}
    \cup {Query("getFamily", f, FALSE, "", {}, <<>>) : f \in AllFormats}
    \cup {Query(op, f, s, "", {}, <<>>) :
            op \in {"getCompressedBlockWidth", "getCompressedBlockHeight"},
            f \in AllFormats, s \in BOOLEAN}
    \cup {Query("getFormatFromName", 0, FALSE, n, x, <<>>) :
            n \in Names, x \in ExclusionFlags}
    \cup {Query(op, f, FALSE, "", {}, <<>>) :
            op \in TableReaders \cup {"packColour", "unpackColour"},
            f \in 0..(PFG_COUNT + 1)}
    \cup {Query("getSizeBytes", f, FALSE, "", {}, <<w, h, d, s, Digits(a, 4)>>) :
            f \in WideFormats, w \in WideExtents, h \in WideExtents,
            d \in WideExtents, s \in WideExtents, a \in RowAlignments}

InitQuery ==
    /\ SizeIdle /\ CodecIdle /\ BulkIdle
    /\ pc = "query"
    /\ call \in QueryCalls
    /\ result = [kind |-> "none", value |-> 0]

Returns(v) ==
    /\ result' = [kind |-> "ok", value |-> v]
    /\ UNCHANGED <<sizeVars, codecVars, bulkVars>>

\* the three overloads of getMaxMipmapCount
GetMaxMipmapCount ==
    /\ pc = "query" /\ call.op = "getMaxMipmapCount"
    /\ \E v \in (IF Len(call.dims) = 1
                   THEN getMaxMipmapCount(call.dims[1])
                   ELSE IF Len(call.dims) = 2
                          THEN getMaxMipmapCount2(call.dims[1], call.dims[2])
                          ELSE getMaxMipmapCount3(call.dims[1], call.dims[2],
                                                  call.dims[3])) :
           Returns(v)
    /\ pc' = "done"
    /\ UNCHANGED call

GetFamily ==
    /\ pc = "query" /\ call.op = "getFamily"
    /\ Returns(getFamily(call.format))
    /\ pc' = "done"
    /\ UNCHANGED call

\* getFamily of the format the first call returned
GetFamilyOfFamily ==
    /\ pc = "done" /\ call.op = "getFamily"
    /\ Returns(getFamily(result.value))
    /\ pc' = "again"
    /\ UNCHANGED call

\* the default branch asserts that the format is not compressed
GetCompressedBlockWidth ==
    /\ pc = "query" /\ call.op = "getCompressedBlockWidth"
    /\ IF /\ call.format \notin BlockCases4 \cup BlockCasesPvrtc
          /\ call.format # PFG_ETC1_RGB8_UNORM
          /\ isCompressed(call.format)
         THEN /\ result' = [kind |-> "assert", value |-> 0]
              /\ UNCHANGED <<sizeVars, codecVars, bulkVars>>
         ELSE Returns(getCompressedBlockWidth(call.format, call.apiStrict))
    /\ pc' = "done"
    /\ UNCHANGED call

GetCompressedBlockHeight ==
    /\ pc = "query" /\ call.op = "getCompressedBlockHeight"
    /\ IF /\ call.format \notin BlockCases4 \cup BlockCasesPvrtc
          /\ call.format # PFG_ETC1_RGB8_UNORM
          /\ isCompressed(call.format)
         THEN /\ result' = [kind |-> "assert", value |-> 0]
              /\ UNCHANGED <<sizeVars, codecVars, bulkVars>>
         ELSE Returns(getCompressedBlockHeight(call.format, call.apiStrict))
    /\ pc' = "done"
    /\ UNCHANGED call

GetFormatFromName ==
    /\ pc = "query" /\ call.op = "getFormatFromName"
    /\ Returns(getFormatFromName(call.name, call.exclusionFlags))
    /\ pc' = "done"
    /\ UNCHANGED call

\* getDescriptionFor as the build makes it: with the assertion, which stops
\* the program for an index outside 0 .. PFG_COUNT - 1, or with NDEBUG,
\* where the index is used as it is; msPixelFormatDesc has PFG_COUNT + 1
\* rows, and a read past the last one is undefined
Described(fmt, asserts, outcome) ==
    IF asserts /\ ~InRange(fmt)
      THEN result' = [kind |-> "assert", value |-> 0]
    ELSE IF fmt < 0 \/ fmt > PFG_COUNT
      THEN result' = [kind |-> "undefined", value |-> 0]
    ELSE result' = outcome

\* getBytesPerPixel, getNumberOfComponents, toString, getFlags
ReadTable ==
    /\ pc = "query" /\ call.op \in TableReaders
    /\ \E asserts \in BOOLEAN :
          Described(call.format, asserts,
              [kind |-> "ok",
               value |-> CASE call.op = "getBytesPerPixel" ->
                                 getBytesPerPixel(call.format)
                           [] call.op = "getNumberOfComponents" ->
                                 getNumberOfComponents(call.format)
                           [] call.op = "toString" -> toString(call.format)
                           [] call.op = "getFlags" -> getFlags(call.format)])
    /\ pc' = "done"
    /\ UNCHANGED <<call, sizeVars, codecVars, bulkVars>>

\* packColour and unpackColour of any id: getFlags( pf ), then the switch
PackOrUnpackColour ==
    /\ pc = "query" /\ call.op \in {"packColour", "unpackColour"}
    /\ \E asserts \in BOOLEAN :
          Described(call.format, asserts,
              [kind |-> IF call.op = "packColour"
                          THEN packColour(<<Zero, Zero, Zero, One>>,
                                          call.format).kind
                          ELSE unpackColour(call.format,
                                            [i \in 1..19 |-> 0]).kind,
               value |-> 0])
    /\ pc' = "done"
    /\ UNCHANGED <<call, sizeVars, codecVars, bulkVars>>

\* getSizeBytes of extents of 32 bits, size_t of 64 bits
GetSizeBytes ==
    /\ pc = "query" /\ call.op = "getSizeBytes"
    /\ \E r \in {getSizeBytesWide(call.dims[1], call.dims[2], call.dims[3],
                                  call.dims[4], call.format,
                                  ValueOf(call.dims[5]), 4, 8)} :
          result' = [kind |-> r.kind, value |-> r.value]
    /\ pc' = "done"
    /\ UNCHANGED <<call, sizeVars, codecVars, bulkVars>>

NextQuery ==
    \/ GetMaxMipmapCount
    \/ GetFamily
    \/ GetFamilyOfFamily
    \/ GetCompressedBlockWidth
    \/ GetCompressedBlockHeight
    \/ GetFormatFromName
    \/ ReadTable
    \/ PackOrUnpackColour
    \/ GetSizeBytes

SpecQuery == InitQuery /\ [][NextQuery]_vars

(***************************************************************************)
(* Properties of the size calculator (checked under SpecSize).             *)
(***************************************************************************)
\* number of mip levels down to and including the 1x1x1 level
RECURSIVE NumLevels(_, _, _)
NumLevels(w, h, d) ==
    IF w <= 1 /\ h <= 1 /\ d <= 1 THEN 1
    ELSE 1 + NumLevels(w \div 2, h \div 2, d \div 2)

MipDim(v, i) == Max(1, v \div Pow2(i))

\* sum of getSizeBytes over the levels 0..k-1 of the chain
RECURSIVE MipChainSum(_, _, _, _)
MipChainSum(w, h, d, k) ==
    IF k = 0 THEN 0
    ELSE MipChainSum(w, h, d, k - 1)
         + getSizeBytes(MipDim(w, k - 1), MipDim(h, k - 1), MipDim(d, k - 1),
                        slices, format, rowAlignment).value

CalcReturned ==
    pc = "done" /\ result.op = "calculateSizeBytes" /\ result.kind = "ok"

\* C1: calculateSizeBytes returns the sum of getSizeBytes over the levels
\* 0..k-1, k = min(numMipmaps, number of levels down to and including 1x1x1);
\* so the 1x1x1 level is part of the sum when numMipmaps reaches it.
C1_ChainIncludesLastLevel ==
    CalcReturned =>
        result.value =
            MipChainSum(call.width, call.height, call.depth,
                        Min(call.numMipmaps,
                            NumLevels(call.width, call.height, call.depth)))

GetSizeReturned == pc = "done" /\ result.op = "getSizeBytes"

\* the block sizes the specification gives to the 4x4-block families
BlockBytes8 ==
    {PFG("PFG_BC1_UNORM"), PFG("PFG_BC1_UNORM_SRGB"), PFG("PFG_BC4_UNORM"),
     PFG("PFG_BC4_SNORM"), PFG("PFG_ETC1_RGB8_UNORM"),
     PFG("PFG_ETC2_RGB8_UNORM"), PFG("PFG_ETC2_RGB8_UNORM_SRGB"),
     PFG("PFG_ETC2_RGB8A1_UNORM"), PFG("PFG_ETC2_RGB8A1_UNORM_SRGB"),
     PFG("PFG_EAC_R11_UNORM"), PFG("PFG_EAC_R11_SNORM"), PFG("PFG_ATC_RGB")}
CeilDiv(a, b) == IF a % b = 0 THEN a \div b ELSE a \div b + 1

\* C9: for every format of 4x4 blocks getSizeBytes returns
\* ceil(w/4) * ceil(h/4) * B * d * slices and signals no error, B = 8 for the
\* single-rate families and 16 for the double-rate ones.
C9_BlockFormatsSized ==
    (GetSizeReturned /\ getCompressedBlockWidth(format, FALSE) = 4
                     /\ isCompressed(format)) =>
        /\ result.kind = "ok"
        /\ result.value =
              CeilDiv(width, 4) * CeilDiv(height, 4)
              * (IF format \in BlockBytes8 THEN 8 ELSE 16) * depth * slices

AlignUp(n, a) == IF n % a = 0 THEN n ELSE n + (a - (n % a))

Pvrtc2bpp == {PFG("PFG_PVRTC_RGB2"), PFG("PFG_PVRTC_RGBA2"), PFG("PFG_PVRTC2_2BPP")}
Pvrtc4bpp == {PFG("PFG_PVRTC_RGB4"), PFG("PFG_PVRTC_RGBA4"), PFG("PFG_PVRTC2_4BPP")}

ChannelCodes(f) ==
    IF f = PFG_R10G10B10A2_UNORM THEN <<1023, 1023, 1023, 3>>
    ELSE IF f = PFG_B5G6R5_UNORM THEN <<31, 63, 31, 0>>
    ELSE IF f = PFG_B5G5R5A1_UNORM THEN <<31, 31, 31, 1>>
    ELSE IF f = PFG_B4G4R4A4_UNORM THEN <<15, 15, 15, 15>>
    ELSE IF f = PFG_A8_UNORM THEN <<0, 0, 0, 255>>
    ELSE IF f = PFG_BGRX8_UNORM THEN <<255, 255, 255, 0>>
    ELSE IF f \in {PFG_D24_UNORM, PFG_D24_UNORM_S8_UINT}
      THEN <<16777215, 0, 0, 0>>
    ELSE LET n == getNumberOfComponents(f)
             bits == (8 * getBytesPerPixel(f)) \div n
             m == IF "PFF_SIGNED" \in getFlags(f) THEN Pow2(bits - 1) - 1
                  ELSE Pow2(bits) - 1
         IN  [i \in 1..4 |-> IF i <= n THEN m ELSE 0]

\* v lies in the normalized range of format f
InNormalizedRange(v, f) ==
    /\ v[1] <= v[2]
    /\ IF "PFF_SIGNED" \in getFlags(f) THEN -v[1] <= v[2] ELSE v[1] >= 0

\* | x - y | <= 1 / m, computed from the integer and fractional parts
WithinStep(x, y, m) ==
    LET whole == Floor(x) - Floor(y)
        xr == x[1] - (Floor(x) * x[2])
        yr == y[1] - (Floor(y) * y[2])
    IN  /\ Abs(whole) <= 1
        /\ Abs((whole * (x[2] * y[2])) + ((xr * y[2]) - (yr * x[2])))
               <= (x[2] * y[2]) \div m

RoundTripDone ==
    /\ pc = "roundtrip"
    /\ "PFF_NORMALIZED" \in getFlags(pf)
    /\ ~isCompressed(pf)
    /\ \A i \in 1..4 : InNormalizedRange(call.rgba[i], pf)

\* C2: for a normalized uncompressed format that pack and unpack support and
\* a colour whose channels lie in the normalized range, unpackColour of the
\* bytes packColour wrote gives back every stored channel within one
\* quantization step of that channel's width.
C2_RoundTripWithinStep ==
    RoundTripDone =>
        \A i \in 1..4 :
            ChannelCodes(pf)[i] > 0 =>
                WithinStep(rgbaPtr[i], call.rgba[i], ChannelCodes(pf)[i])

\* the formats whose channels are placed with shifts and masks
IrregularFormats ==
    {PFG_R10G10B10A2_UNORM, PFG_R10G10B10A2_UINT, PFG_B5G6R5_UNORM,
     PFG_B5G5R5A1_UNORM, PFG_B4G4R4A4_UNORM, PFG_D24_UNORM_S8_UINT}

RepackDone == pc = "repacked" /\ pf \in IrregularFormats

\* C3: for each irregular bit-packed format, packColour of the floats that
\* unpackColour read from a storage word writes that same word back.
C3_RepackReproducesWord ==
    RepackDone => mem = call.mem

\* the video, planar and palette formats, the formats the claim calls
\* exotic, and PFG_UNKNOWN
UnsupportedFormats ==
    ((PFG("PFG_AYUV")..PFG("PFG_V408")) \ {PFG_B4G4R4A4_UNORM})
    \cup {PFG("PFG_R11G11B10_FLOAT"), PFG("PFG_R9G9B9E5_SHAREDEXP"),
          PFG("PFG_R1_UNORM"), PFG("PFG_R8G8_B8G8_UNORM"),
          PFG("PFG_G8R8_G8B8_UNORM"),
          PFG("PFG_R10G10B10_XR_BIAS_A2_UNORM"), PFG_UNKNOWN}
\* C15: packColour and unpackColour raise InvalidParams exactly for the
\* compressed formats, NotImplemented exactly for the unsupported formats,
\* otherwise run a case that writes or reads bytes; a call that raises
\* leaves the colour and the memory as they were.
C15_SameOutcomeKinds ==
    (result.op \in {"packColour", "unpackColour"}
        /\ pc \in {"packed", "unpacked", "opaque", "undefined", "failed"})
    => /\ (result.kind = "InvalidParams") = isCompressed(pf)
       /\ (result.kind = "NotImplemented")
            = (~isCompressed(pf) /\ pf \in UnsupportedFormats)
       /\ (~isCompressed(pf) /\ pf \notin UnsupportedFormats)
            => (result.kind \in {"ok", "undefined"} /\ result.value > 0)
       /\ pc = "failed" <=> result.kind \in {"InvalidParams", "NotImplemented"}
       /\ pc = "failed" => (mem = call.mem /\ rgbaPtr = call.rgba)
\* unpackColour of an exotic format raised NotImplemented
C15_Witness ==
    /\ pc = "failed" /\ result.op = "unpackColour"
    /\ pf = PFG("PFG_R9G9B9E5_SHAREDEXP")
    /\ result.kind = "NotImplemented"
    /\ rgbaPtr = call.rgba

\* C16: unpackColour of a format with fewer than four components leaves 0
\* in the colour lanes from its number of components on and 1 in the alpha
\* lane, whatever the bytes read.
C16_MissingLanesDefaulted ==
    (pc = "unpacked" /\ getNumberOfComponents(pf) < 4)
    => /\ \A i \in (getNumberOfComponents(pf) + 1)..3 : rgbaPtr[i][1] = 0
       /\ rgbaPtr[4][1] = rgbaPtr[4][2]

\* the code format f keeps for channel i (1 red .. 4 alpha) in the bytes of
\* a pixel, from the documented layout of the format
StoredCode(f, bytes, i) ==
    IF f = PFG_R10G10B10A2_UNORM
      THEN Field(bytes, 10 * (i - 1), IF i = 4 THEN 2 ELSE 10)
    ELSE IF f = PFG_B5G6R5_UNORM
      THEN Field(bytes, <<11, 5, 0>>[i], <<5, 6, 5>>[i])
    ELSE IF f = PFG_B5G5R5A1_UNORM
      THEN Field(bytes, <<10, 5, 0, 15>>[i], <<5, 5, 5, 1>>[i])
    ELSE IF f = PFG_B4G4R4A4_UNORM
      THEN Field(bytes, <<8, 4, 0, 12>>[i], 4)
    ELSE IF f \in {PFG_D24_UNORM, PFG_D24_UNORM_S8_UINT}
      THEN Field(bytes, 0, 24)
    ELSE IF f = PFG_A8_UNORM THEN bytes[1]
    ELSE IF f \in {PFG_BGRA8_UNORM, PFG_BGRX8_UNORM}
      THEN bytes[<<3, 2, 1, 4>>[i]]
    ELSE LET wide == getBytesPerPixel(f) = 2 * getNumberOfComponents(f)
             T == IF "PFF_SIGNED" \in getFlags(f)
                    THEN (IF wide THEN "int16" ELSE "int8")
                    ELSE (IF wide THEN "uint16" ELSE "uint8")
         IN  DecodeT(bytes, i - 1, T)

\* C17: packColour of a normalized format stores, for every channel the
\* format keeps, the channel clamped to the normalized range, scaled by the
\* largest code of the channel and rounded half away from zero, in the bits
\* of that channel.
C17_PackClampsAndScales ==
    (pc = "packed" /\ "PFF_NORMALIZED" \in getFlags(pf))
    => \A i \in 1..4 :
          ChannelCodes(pf)[i] > 0
          => StoredCode(pf, mem, i)
               = RoundScaled(IF "PFF_SIGNED" \in getFlags(pf)
                               THEN Clamp(call.rgba[i], -1, 1)
                               ELSE saturate(call.rgba[i]),
                             ChannelCodes(pf)[i])

\* the signed normalized formats of 8 and 16 bit channels
SnormFormats ==
    {f \in ExactFormats : {"PFF_NORMALIZED", "PFF_SIGNED"} \subseteq getFlags(f)}
\* C18: unpackColour of a signed normalized format gives, for the code c of
\* a channel whose largest code is M, c / M, and -1 for the code -M - 1;
\* every channel lies in -1 .. 1.
C18_SnormDecodeFloored ==
    (pc = "unpacked" /\ pf \in SnormFormats)
    => \A i \in 1..getNumberOfComponents(pf) :
          LET M == ChannelCodes(pf)[i]
              c == StoredCode(pf, call.mem, i)
              v == rgbaPtr[i]
          IN  /\ v[2] > 0
              /\ v[1] * M = (IF c < -M THEN -M ELSE c) * v[2]
              /\ -v[2] <= v[1] /\ v[1] <= v[2]
\* the two most negative codes of 8 bits, both decoded to -1
C18_Witness ==
    /\ pc = "unpacked" /\ pf = PFG("PFG_RG8_SNORM")
    /\ call.mem[1] = 128 /\ call.mem[2] = 129
    /\ rgbaPtr[1][1] = -rgbaPtr[1][2]
    /\ rgbaPtr[2][1] = -rgbaPtr[2][2]

\* C21: in the table a compressed format has 0 bytes per pixel, a
\* normalized format is an integer format, and every format has one to four
\* components; packColour and unpackColour raise for a compressed format.
C21_DescriptorsConsistent ==
    /\ \A i \in 1..Len(msPixelFormatDesc) :
          LET desc == msPixelFormatDesc[i]
          IN  /\ "PFF_COMPRESSED" \in desc.flags => desc.bytesPerPixel = 0
              /\ desc.components \in 1..4
    /\ (pc \in {"pack", "unpack"} /\ "PFF_NORMALIZED" \in getFlags(pf))
          => "PFF_INTEGER" \in getFlags(pf)
    /\ (result.op \in {"packColour", "unpackColour"} /\ isCompressed(pf))
          => (pc = "failed" /\ getBytesPerPixel(pf) = 0
              /\ result.kind \in {"InvalidParams", "NotImplemented"})
\* unpackColour of a compressed normalized format was refused
C21_Witness ==
    /\ pc = "failed" /\ result.op = "unpackColour"
    /\ pf = PFG_BC1_UNORM
    /\ {"PFF_NORMALIZED", "PFF_INTEGER"} \subseteq getFlags(pf)
    /\ getBytesPerPixel(pf) = 0

\* C26: unpackColour of a format the codec supports reads no byte at or past
\* getBytesPerPixel from the pixel pointer; packColour writes
\* getBytesPerPixel bytes and leaves the bytes after them as they were.
C26_CodecStaysInsidePixel ==
    /\ (result.op = "unpackColour" /\ result.kind = "ok")
          => result.value <= getBytesPerPixel(pf)
    /\ (result.op = "packColour" /\ result.kind \in {"ok", "undefined"})
          => result.value = getBytesPerPixel(pf)
    /\ pc = "packed"
          => \A i \in (getBytesPerPixel(pf) + 1)..Len(mem) : mem[i] = call.mem[i]

\* the normalized formats without sRGB whose channels are all 8 or all 16
\* bits wide
UniformNormalized ==
    {f \in ExactFormats \ IrregularFormats :
        /\ "PFF_NORMALIZED" \in getFlags(f)
        /\ "PFF_SRGB" \notin getFlags(f)
        /\ getBytesPerPixel(f) \in {getNumberOfComponents(f),
                                    2 * getNumberOfComponents(f)}}
\* C27: for a uniform normalized format without sRGB, packColour of the
\* floats unpackColour decoded writes every channel's code back, except
\* that the most negative signed code -M - 1 is written back as -M.
C27_RecodeIsIdentity ==
    (pc = "repacked" /\ pf \in UniformNormalized)
    => \A i \in 1..4 :
          LET M == ChannelCodes(pf)[i]
              c == StoredCode(pf, call.mem, i)
          IN  M > 0 => StoredCode(pf, mem, i) = (IF c < -M THEN -M ELSE c)

(***************************************************************************)
(* Properties of bulkPixelConversion (checked under SpecBulk).             *)
(***************************************************************************)
BulkCalled ==
    result.op = "bulkPixelConversion" /\ equalSize(call.src, call.dst)
BulkReturned == BulkCalled /\ pc = "done"

\* the pixels <<x, y, z>> of the region, relative to its origin
RegionPixels ==
    {<<x, y, z>> : x \in 0..(src.width - 1), y \in 0..(src.height - 1),
                   z \in 0..(getDepthOrSlices(src) - 1)}

\* the bytes of pixel q of the region of box, found with the box's own
\* bytesPerPixel, bytesPerRow and bytesPerImage
PixelBytes(box, q) ==
    LET off == at(box, box.x + q[1], box.y + q[2], getZOrSlice(box) + q[3])
    IN  [i \in 1..box.bytesPerPixel |-> box.data[off + i]]

\* C4: after a same-format conversion of an uncompressed format returns,
\* every pixel of the destination region holds the bytes of the pixel of the
\* source region at the same position, each side addressed through its own
\* strides, whichever copy path was taken.
C4_SameFormatPixelsCopied ==
    (BulkReturned /\ srcFormat = dstFormat /\ ~isCompressed(srcFormat)) =>
        \A q \in RegionPixels : PixelBytes(dst, q) = PixelBytes(src, q)

\* the precondition of the identity copy
IdenticalLayout ==
    /\ srcFormat = dstFormat
    /\ src.x = 0 /\ src.y = 0 /\ src.z = 0
    /\ dst.x = 0 /\ dst.y = 0 /\ dst.z = 0
    /\ src.bytesPerRow = dst.bytesPerRow
    /\ src.bytesPerImage = dst.bytesPerImage

\* C5: with the same format, zero x, y and z offsets and identical
\* bytesPerRow and bytesPerImage, the call returns and the bytesPerImage *
\* numSlices bytes of the destination from its sliceStart on are the bytes
\* of the source from its sliceStart on.
C5_IdentityCopyDuplicates ==
    (BulkCalled /\ IdenticalLayout) =>
        /\ pc = "done"
        /\ \A i \in 1..(src.bytesPerImage * src.numSlices) :
              dst.data[(dst.sliceStart * dst.bytesPerImage) + i]
                  = src.data[(src.sliceStart * src.bytesPerImage) + i]

C5_Witness ==
    /\ BulkReturned /\ IdenticalLayout
    /\ src.numSlices > 1 /\ src.sliceStart # dst.sliceStart
    /\ src.bytesPerRow > src.width * src.bytesPerPixel
    /\ dst.data # call.dst.data

\* both formats are handled by the per-pixel codec
CodecSupports(fmt) ==
    /\ unpackColour(fmt, <<0, 0, 0, 0, 0, 0, 0, 0>>).kind = "ok"
    /\ packColour(<<Zero, Zero, Zero, Zero>>, fmt).kind = "ok"

\* what the codec makes of the bytes of one source pixel alone
ConvertedPixel(bytes) ==
    packColour(unpackColour(srcFormat, bytes \o <<0, 0, 0, 0, 0, 0, 0, 0>>).rgba,
               dstFormat).bytes

\* C6: after a conversion between two different uncompressed formats that
\* the codec supports returns, every destination pixel holds
\* packColour(dstFormat, unpackColour(srcFormat, bytes of the source pixel)),
\* each side addressed with its own strides, and every pixel of the region
\* was converted exactly once.
C6_PixelsConvertedOnce ==
    (/\ BulkReturned /\ srcFormat # dstFormat
     /\ ~isCompressed(srcFormat) /\ ~isCompressed(dstFormat)
     /\ CodecSupports(srcFormat) /\ CodecSupports(dstFormat)) =>
        /\ \A q \in RegionPixels :
              PixelBytes(dst, q) = ConvertedPixel(PixelBytes(src, q))
        /\ Len(result.value) = Cardinality(RegionPixels)
        /\ \A q \in RegionPixels :
              \E k \in 1..Len(result.value) : result.value[k] = q

RecodingCall ==
    /\ BulkCalled /\ srcFormat # dstFormat
    /\ (isCompressed(srcFormat) \/ isCompressed(dstFormat))

\* C7: a call with two different formats of which at least one is compressed
\* signals NotImplemented, converts no pixel and leaves the destination
\* memory as it was.
C7_RecodingNotImplemented ==
    RecodingCall =>
        /\ pc = "failed" /\ result.kind = "NotImplemented"
        /\ result.value = <<>>
        /\ dst = call.dst

C7_Witness ==
    /\ RecodingCall /\ pc = "failed"
    /\ isCompressed(srcFormat) /\ ~isCompressed(dstFormat)
    /\ src.x # 0 /\ dst.bytesPerPixel = 4

\* some x or y offset of the two boxes is not a multiple of the block edge
OffBlockBoundary ==
    \E v \in {src.x, src.y, dst.x, dst.y} : v % 4 # 0

\* C8: a same-format call on a 4x4-block compressed format that does not take
\* the whole-buffer copy signals NotImplemented when an x or y offset of
\* either box is not a multiple of the block edge.
C8_OffsetsVerified ==
    (/\ BulkCalled /\ srcFormat = dstFormat
     /\ isCompressed(srcFormat)
     /\ getCompressedBlockWidth(srcFormat, FALSE) = 4
     /\ ~rawCopyCondition(call.src, srcFormat, call.dst, dstFormat)
     /\ OffBlockBoundary) =>
        result.kind = "NotImplemented"

\* C25: a call of bulkPixelConversion that stops at the assertion or raises
\* an exception leaves every byte of the destination memory as it was.
C25_FailuresWriteNothing ==
    (result.op = "bulkPixelConversion" /\ pc \in {"failed", "aborted"})
    => /\ dst = call.dst
       /\ result.kind \in {"assert", "NotImplemented", "InvalidParams"}
\* packColour raised for the first pixel, after unpackColour had read it
C25_Witness ==
    /\ BulkCalled /\ pc = "failed"
    /\ srcFormat = PFG_R8_UNORM /\ dstFormat = PFG_P8
    /\ result.kind = "NotImplemented" /\ Len(result.value) = 1
    /\ dst = call.dst

\* offset i (from 0) of the destination memory lies in a pixel of the region
InRegion(i) ==
    \E q \in RegionPixels :
        LET off == at(dst, dst.x + q[1], dst.y + q[2], getZOrSlice(dst) + q[3])
        IN  i >= off /\ i < off + dst.bytesPerPixel

\* C24: after a conversion to an uncompressed format returns, every byte of
\* the destination memory outside the pixels of the destination region is
\* as it was before the call, whichever copy path was taken.
C24_OnlyRegionWritten ==
    (BulkReturned /\ ~isCompressed(dstFormat))
    => \A i \in 1..Len(dst.data) :
          dst.data[i] # call.dst.data[i] => InRegion(i - 1)

\* C28: a conversion between boxes of equal size with the same uncompressed
\* format returns without an exception and hands no pixel to unpackColour
\* or packColour, also when the codec does not implement the format.
C28_SameFormatNeverConverts ==
    (BulkCalled /\ srcFormat = dstFormat /\ ~isCompressed(srcFormat))
    => /\ pc = "done" /\ result.kind = "ok"
       /\ result.value = <<>>
\* rows of a palette format copied from one offset to another
C28_Witness ==
    /\ BulkReturned /\ srcFormat = PFG_P8 /\ dstFormat = PFG_P8
    /\ ~CodecSupports(PFG_P8)
    /\ src.x # dst.x
    /\ dst.data # call.dst.data

\* C29: a same-format conversion of a PVRTC format returns, by the raw
\* copy, exactly when the x, y and z of both boxes are 0 and the two
\* bytesPerImage are equal, and raises NotImplemented otherwise.
C29_PvrtcRawCopyOrRefused ==
    (BulkCalled /\ srcFormat = dstFormat
        /\ isCompressed(srcFormat)
        /\ getCompressedBlockWidth(srcFormat, FALSE) = 0)
    => IF /\ src.x = 0 /\ src.y = 0 /\ src.z = 0
          /\ dst.x = 0 /\ dst.y = 0 /\ dst.z = 0
          /\ src.bytesPerImage = dst.bytesPerImage
         THEN /\ pc = "done"
              /\ \A i \in 1..(src.bytesPerImage * src.numSlices) :
                    dst.data[(dst.sliceStart * dst.bytesPerImage) + i]
                        = src.data[(src.sliceStart * src.bytesPerImage) + i]
         ELSE /\ pc = "failed" /\ result.kind = "NotImplemented"
              /\ dst = call.dst
\* a PVRTC image copied whole between two buffers larger than the least
\* size of the format
C29_Witness ==
    /\ BulkReturned /\ srcFormat = PFG_PVRTC_RGB2 /\ dstFormat = PFG_PVRTC_RGB2
    /\ src.x = 0 /\ dst.y = 0
    /\ src.bytesPerImage > 32
    /\ dst.data # call.dst.data

\* the destination memory after call a and then call b, each run to its end
Sequential(a, b) ==
    LET first == PairOutcome(call[a])
    IN  bulkPixelConversion(call[b].src, call[b].srcFormat,
                            [call[b].dst EXCEPT !.data = first.data],
                            call[b].dstFormat).data
\* C22: two calls at the same time with disjoint destination regions store
\* to no common byte, and when both have returned the destination memory is
\* what running them one after the other, in either order, leaves.
C22_DisjointCallsCommute ==
    /\ (pc[1] # "call" /\ pc[2] # "call")
       => PairWrites(call[1]) \cap PairWrites(call[2]) = {}
    /\ (pc = <<"done", "done">>)
       => dst.data = Sequential(1, 2) /\ dst.data = Sequential(2, 1)

(***************************************************************************)
(* Properties of the queries.                                              *)
(***************************************************************************)
QueryReturned(op) == pc = "done" /\ call.op = op
MaxOf(dims) == IF Len(dims) = 1 THEN dims[1]
               ELSE IF Len(dims) = 2 THEN Max(dims[1], dims[2])
               ELSE Max(Max(dims[1], dims[2]), dims[3])

\* C12: getMaxMipmapCount returns 0 for 0 and floor(log2(n)) + 1 for every
\* other n, n the largest of the arguments of the overload.
C12_MipmapCountIsLog2 ==
    QueryReturned("getMaxMipmapCount")
    => result.value = (IF MaxOf(call.dims) = 0 THEN 0
                       ELSE HighBit(MaxOf(call.dims)) + 1)

\* C13: getFamily of a format that getFamily returned is that format.
C13_FamilyIdempotent ==
    [][(pc = "done" /\ pc' = "again") => result'.value = result.value]_vars
\* the family of a format that is not its own family, asked again
C13_Witness ==
    /\ pc = "again"
    /\ call.format = PFG_A8_UNORM
    /\ result.value = PFG("PFG_R8_UINT")

\* C14: a format and the family getFamily gives it have the same bytes per
\* pixel and the same number of components in the table, so any two formats
\* of one family have.
C14_FamilySharesLayout ==
    QueryReturned("getFamily")
    => /\ getBytesPerPixel(call.format) = getBytesPerPixel(result.value)
       /\ getNumberOfComponents(call.format)
            = getNumberOfComponents(result.value)

\* C19: the block width and the block height are 1 for an uncompressed
\* format, 0 for PVRTC, 0 or 4 for ETC1 as apiStrict says, 4 for every other
\* compressed format, and the assertion of the default branch holds.
C19_BlockWidthByFormat ==
    (QueryReturned("getCompressedBlockWidth")
        \/ QueryReturned("getCompressedBlockHeight"))
    => /\ result.kind = "ok"
       /\ result.value =
            (IF ~isCompressed(call.format) THEN 1
             ELSE IF call.format \in Pvrtc2bpp \cup Pvrtc4bpp THEN 0
             ELSE IF call.format = PFG_ETC1_RGB8_UNORM
                    THEN (IF call.apiStrict THEN 0 ELSE 4)
             ELSE 4)
\* the strict height of ETC1
C19_Witness ==
    /\ QueryReturned("getCompressedBlockHeight")
    /\ call.format = PFG_ETC1_RGB8_UNORM /\ call.apiStrict
    /\ result.kind = "ok" /\ result.value = 0

\* C20: getFormatFromName returns the lowest format of the table with that
\* name and without an excluded flag, PFG_UNKNOWN when there is none; the
\* name toString gives a format finds that format when nothing is excluded.
C20_LowestAllowedMatch ==
    QueryReturned("getFormatFromName")
    => LET allowed(i) == /\ getFlags(i) \cap call.exclusionFlags = {}
                         /\ toString(i) = call.name
       IN  /\ (\E i \in AllFormats : allowed(i))
                => /\ allowed(result.value)
                   /\ \A i \in AllFormats : allowed(i) => result.value <= i
           /\ ~(\E i \in AllFormats : allowed(i)) => result.value = PFG_UNKNOWN
           /\ getFlags(result.value) \cap call.exclusionFlags = {}
           /\ \A i \in AllFormats :
                (call.name = toString(i) /\ call.exclusionFlags = {})
                    => result.value = i
\* a name found, and the same name not found once its flag is excluded
C20_Witness ==
    /\ QueryReturned("getFormatFromName")
    /\ call.name = "PFG_RGBA32_INT"
    /\ call.exclusionFlags = {"PFF_SIGNED"}
    /\ result.value = PFG_UNKNOWN

\* C23: a function that reads the descriptor of a format returns no value
\* and raises no exception for an id outside 0 .. PFG_COUNT - 1: the
\* program stops at the assertion; PFG_COUNT is such an id.
C23_OutOfRangeIsFatal ==
    (pc = "done"
        /\ call.op \in TableReaders \cup {"packColour", "unpackColour"}
        /\ (call.format < 0 \/ call.format >= PFG_COUNT))
    => result.kind = "assert"

\* the value of getSizeBytes computed in types wide enough for every
\* product: 20 digits hold 2^32 to the fourth times 16
ExactSizeBytes(q) ==
    getSizeBytesWide(q.dims[1], q.dims[2], q.dims[3], q.dims[4], q.format,
                     ValueOf(q.dims[5]), 20, 20).value
\* C30: getSizeBytes returns the exact mathematical size whenever that size
\* fits in 64 bits: no intermediate product wraps modulo 2^32.
C30_SizeIsExact ==
    (pc = "done" /\ call.op = "getSizeBytes" /\ result.kind = "ok")
    => LET t == ExactSizeBytes(call)
       IN  (\A i \in 9..20 : t[i] = 0) => result.value = Resize(t, 8)
====
